---- MODULE Spec2Model ----
(***************************************************************************)
(* rufaco: fan calibration (measure_pwm / measure_fan), the fan output     *)
(* stage (update_output) and the main thread (calibration at startup, then *)
(* the control loop) with the signal thread that clears the stop flag.     *)
(***************************************************************************)
EXTENDS Integers, Sequences, FiniteSets, TLC

(* ---------------------------------------------------------------- bounds *)
\* Thresholds of the simulated fans of the calibration runs: 0..CalLow and
\* U8Max-CalHigh..U8Max, besides the pair of the repository's test (21, 42).
CalLow == 2
CalHigh == 3
\* Linear curves have their steps at 0..LinMaxX degrees with values 0..LinMaxY.
LinMaxX == 5
LinMaxY == 4
\* At most HubFailedReads reads of a fan's RPM fail while the hub calibrates
\* its fans, at most CalFailedReads in a calibration followed on its own.
HubFailedReads == 1
CalFailedReads == 6
\* Aggregate curves have at most AggMaxLen children.
AggMaxLen == 3
\* The clock is counted in whole seconds up to MaxTime.
MaxTime == 12

(* ------------------------------------------------------ program constants *)
U8Max == 255
None == -1
InitialMaxDiff == 10000
RingLen == 5
MaxRpmDiff == 30
StartPercent == 20
ZeroPercent == 10
ZeroPercentSecs == 10
TestMinPwm == 21
TestStartPwm == 42
PidLimit == 100

Fans == {"fan1", "fan2"}
Sensors == {"temp1", "temp2"}
Curves == {"curve1", "curve2"}

VARIABLES
    running,        \* the stop flag: TRUE until a signal arrives
    pc,             \* the main thread's position
    panic_at,       \* "none", or the source line whose panic ended the process
    sig_phase,      \* what the main thread was doing when the flag was cleared
    now,            \* Instant::now(), in seconds
    conf,           \* RufacoConfig.fans: fan -> [minpwm, startpwm] (Option<u8>)
    fan,            \* FanSensor fields: fan -> [min_pwm, start_pwm, last_val, zero_percent_time]
    out,            \* fan -> the PWM last written to fan_pwm
    hw,             \* fan -> whether the physical fan is turning
    sim,            \* fan -> [min, start]: the thresholds of the physical fan
    backend,        \* fan -> "mock" | "hwmon": the FanInput / FanOutput implementation
    cur,            \* the fan whose lock the main thread holds
    mf,             \* locals of measure_fan
    mf_res,         \* the value measure_fan returned: <<>> (None) or <<min_pwm, start_pwm>>
    mp,             \* locals of measure_pwm
    mp_ret,         \* the call site measure_pwm returns to
    mp_res,         \* the value measure_pwm returned: None or the mean
    cancelled_at,   \* the call sites whose measure_pwm returned None
    upd,            \* locals of the last update_output: [percentage, min_pwm, pwm_val]
    low_since,      \* fan -> since when every update_output saw a demand below 10%, or None
    visited,        \* the fans the start-up for_each has gone through
    temp,           \* TempSensor.last_val: sensor -> millidegrees
    done_sensors,   \* the sensors refreshed in the tick in flight
    done_curves,    \* the curves updated in the tick in flight
    done_fans,      \* the fans updated in the tick in flight
    config_file,    \* the last write of the configuration: [written, path, fans]
    rd,             \* the last read of an input: [node, reading, before, failed]
    selected_config, \* the search path the configuration was loaded from
    lk,             \* the mutexes of the hub's nodes the main thread holds: [phase, done, frames, held]
    tk,             \* FanHub::update on the loaded nodes: [phase, n, temp, pid, done, updates, measured, consumed]
    lc,             \* a LinearCurve on its own: its configuration, input and value
    ag,             \* a MaximumCurve and an AverageCurve on their own
    pidc,           \* a PidCurve on its own: controller state and emitted value
    sv,             \* SensorValues under comparison
    ld              \* the loading of the configuration: the maps built so far

envVars == <<running, pc, panic_at, sig_phase, now>>
fanVars == <<conf, fan, out, hw, sim, backend, cur, upd, low_since>>
calVars == <<mf, mf_res, mp, mp_ret, mp_res, cancelled_at>>
hubVars == <<visited, temp, done_sensors, done_curves, done_fans, config_file,
            rd, selected_config, lk, tk>>
unitVars == <<lc, ag, pidc, sv, ld>>
vars == <<envVars, fanVars, calVars, hubVars, unitVars>>

\* A unit that the specification at hand does not exercise.
IdleUnit == [stage |-> "idle"]

NoUnits ==
    /\ lc = IdleUnit
    /\ ag = IdleUnit
    /\ pidc = IdleUnit
    /\ sv = IdleUnit
    /\ ld = IdleUnit

(* ------------------------------------------------------------ arithmetic *)
Abs(x) == IF x < 0 THEN -x ELSE x

\* Integer division that truncates toward zero, as Rust's `/` on i32 and
\* the `as` cast of a float do.
TruncDiv(a, b) == IF a >= 0 THEN a \div b ELSE -((-a) \div b)

\* `x as u8` from a float: saturating.
SatU8(x) == IF x < 0 THEN 0 ELSE IF x > U8Max THEN U8Max ELSE x

RECURSIVE SumSeq(_)
SumSeq(s) == IF s = <<>> THEN 0 ELSE Head(s) + SumSeq(Tail(s))

MaxOf(S) == CHOOSE x \in S : \A y \in S : y <= x

(* ------------------------------------------------------- the physical fan *)
\* The fan of test_measure: it stops below its min threshold, starts at its
\* start threshold and otherwise keeps its state.
SimSpin(t, spinning, pwm) ==
    IF pwm < t.min THEN FALSE
    ELSE IF pwm >= t.start THEN TRUE
    ELSE spinning

\* What the fan input reads: (pwm + 1) * 100 rpm while the fan turns.
SimRpm(f) == IF hw[f] THEN (out[f] + 1) * 100 ELSE 0

\* A fan with a jitter turns unsteadily: a read finds it at its speed or
\* off it by the jitter.
SimReadings(f) ==
    IF hw[f] /\ "jitter" \in DOMAIN sim[f]
    THEN {SimRpm(f), SimRpm(f) + sim[f].jitter}
    ELSE {SimRpm(f)}

(* --------------------------------------------------------------- FanSensor *)
\* FanSensor::new: absent parameters default to 0.
FanNew(c) ==
    [min_pwm |-> IF c.minpwm = None THEN 0 ELSE c.minpwm,
     start_pwm |-> IF c.startpwm = None THEN 0 ELSE c.startpwm,
     last_val |-> 0,
     zero_percent_time |-> None]

\* is_spinning: the scaled RPM value is at least 1.
is_spinning(fs) == fs.last_val >= 1

\* update_input: a read error keeps the previous value.
update_input(fs, reading) ==
    IF reading = None THEN fs ELSE [fs EXCEPT !.last_val = reading]

\* No mutex is held; the setup of the fans is the first to lock one.
NoLocks == [phase |-> "setup", done |-> {}, frames |-> <<>>, held |-> <<>>]

\* No tick has run on the loaded nodes.
NoTick == [phase |-> "idle", n |-> 0, temp |-> 0, pid |-> <<>>, done |-> {},
           updates |-> <<>>, measured |-> <<>>,
           consumed |-> [f \in Fans |-> None]]

\* No input has been read yet.
NoInput ==
    [node |-> "none", reading |-> 0, before |-> 0, failed |-> {}, budget |-> 0]

\* The record of a read of node's input that delivered reading (None: the
\* read failed) when the node's last value was before; failed collects the
\* nodes whose read failed in the tick in flight, budget counts down the
\* failed reads of a calibration.
input_read(node, reading, before, in_tick) ==
    [node |-> node, reading |-> reading, before |-> before,
     failed |-> IF in_tick /\ reading = None THEN rd.failed \cup {node}
                ELSE rd.failed,
     budget |-> IF ~in_tick /\ reading = None THEN rd.budget - 1
                ELSE rd.budget]

\* The readings get_input can deliver to fan f during a tick: the mock of
\* the tests always reads; a hwmon read can fail (None).
Readings(f) ==
    IF backend[f] = "hwmon" THEN SimReadings(f) \cup {None} ELSE SimReadings(f)

\* The readings get_input can deliver to fan f during its calibration.
CalReadings(f) == IF rd.budget > 0 THEN Readings(f) ELSE SimReadings(f)

\* FanOutput::set_output on the simulated fan.
set_output(f, pwm) ==
    /\ out' = [out EXCEPT ![f] = pwm]
    /\ hw' = [hw EXCEPT ![f] = SimSpin(sim[f], hw[f], pwm)]

\* A panic of the main thread ends the process.
Panic(where) ==
    /\ pc' = "panic"
    /\ panic_at' = where

(* ---------------------------------------------------------- update_output *)
\* The floor of the PWM range (the local min_pwm of update_output) for a
\* fan in state fs (its input already refreshed), demand p, at time t.
output_floor(fs, p, t) ==
    LET base == IF is_spinning(fs) THEN fs.min_pwm ELSE fs.start_pwm
        guarded == IF p < StartPercent /\ fs.last_val = 0 THEN 0 ELSE base
    IN  IF /\ p < ZeroPercent
           /\ fs.zero_percent_time # None
           /\ t - fs.zero_percent_time > ZeroPercentSecs
        THEN 0
        ELSE guarded

\* zero_percent_time after the update: set at the first demand below 10%,
\* kept while the demand stays below, cleared by any other demand.
next_zero_percent_time(fs, p, t) ==
    IF p < ZeroPercent
    THEN IF fs.zero_percent_time = None THEN t ELSE fs.zero_percent_time
    ELSE None

\* A scaling of the demand over the whole range 0..255, without the floor.
pwm_value_unfloored(p, floor) == SatU8(TruncDiv(p * U8Max, 100))

\* (percentage / 100.0).mul_add(255 - min_pwm, min_pwm) as u8: the cast
\* truncates toward zero and saturates. For the demands of Demands the
\* fused multiply-add of f64 rounds to the exact quotient's integer part.
pwm_value(p, floor) ==
    SatU8(TruncDiv(p * (U8Max - floor) + 100 * floor, 100))

\* The fan's fields after update_output.
updated_fan(fs, reading, p, t) ==
    LET read == update_input(fs, reading)
    IN  [read EXCEPT !.zero_percent_time = next_zero_percent_time(read, p, t)]

\* The locals of update_output at its end.
output_locals(f, fs, reading, p, t) ==
    LET read == update_input(fs, reading)
        floor == output_floor(read, p, t)
    IN  [fan |-> f, percentage |-> p, rpm |-> read.last_val, time |-> t,
         min_pwm |-> floor, pwm_val |-> pwm_value(p, floor)]

\* Since when the demand seen by update_output has been below 10% without
\* interruption.
next_low_since(since, p, t) ==
    IF p < ZeroPercent THEN (IF since = None THEN t ELSE since) ELSE None

\* update_output of fan f, whose input reads `reading` and whose curve
\* returns p.
update_output(f, reading, p) ==
    LET locals == output_locals(f, fan[f], reading, p, now)
    IN  /\ fan' = [fan EXCEPT ![f] = updated_fan(fan[f], reading, p, now)]
        /\ set_output(f, locals.pwm_val)
        /\ upd' = locals
        /\ low_since' = [low_since EXCEPT ![f] = next_low_since(low_since[f], p, now)]

\* update_output with a hwmon output whose write fails: set_output panics.
update_output_panic(f, reading, p) ==
    /\ backend[f] = "hwmon"
    /\ fan' = [fan EXCEPT ![f] = updated_fan(fan[f], reading, p, now)]
    /\ Panic("fan.rs:54")
    /\ UNCHANGED <<out, hw, upd, low_since>>

(* ------------------------------------------------------------ measure_pwm *)
\* A call of measure_pwm(pwm, ..) from call site ret.
measure_pwm_call(pwm, ret) ==
    /\ mp' = [pwm |-> pwm, max_diff |-> InitialMaxDiff, rpms |-> <<>>, mean |-> 0,
              taken |-> <<>>, refreshed |-> FALSE, after_stop |-> 0,
              writes |-> 0]
    /\ mp_ret' = ret
    /\ pc' = "measure_pwm_enter"

\* An entry of measure_pwm that goes to the loop without writing the PWM.
measure_pwm_write_skipped ==
    /\ pc = "measure_pwm_enter"
    /\ pc' = "measure_pwm"
    /\ UNCHANGED <<unitVars, running, panic_at, sig_phase, now, fanVars, calVars,
                   hubVars>>

\* Entry of measure_pwm: the PWM is written before the loop; mp.writes
\* counts the calls of set_output.
measure_pwm_write ==
    /\ pc = "measure_pwm_enter"
    /\ set_output(cur, mp.pwm)
    /\ mp' = [mp EXCEPT !.writes = @ + 1]
    /\ pc' = "measure_pwm"
    /\ UNCHANGED <<unitVars, running, panic_at, sig_phase, now, conf, fan, sim, backend,
                   cur, upd, low_since, mf, mf_res, mp_ret, mp_res, cancelled_at,
                   hubVars>>

\* HwmonPwm::set_output unwraps the write: a failed write panics.
measure_pwm_write_panic ==
    /\ pc = "measure_pwm_enter"
    /\ backend[cur] = "hwmon"
    /\ Panic("fan.rs:54")
    /\ UNCHANGED <<unitVars, running, sig_phase, now, fanVars, calVars, hubVars>>

\* The ring buffer after one more sample.
PushSample(rpms, rpm) ==
    LET pushed == <<rpm>> \o rpms
    IN  IF Len(pushed) > RingLen THEN SubSeq(pushed, 1, RingLen) ELSE pushed

BufferFull(rpms) == Len(rpms) + 1 > RingLen

MeanOf(rpms) == TruncDiv(SumSeq(rpms), Len(rpms))

MaxDiffOf(rpms, mean) ==
    MaxOf({Abs(rpms[i] - mean) : i \in 1..Len(rpms)})

\* while max_diff > max_rpm_diff
measure_pwm_unsettled == mp.max_diff > MaxRpmDiff

\* A loop that does not look at the stop flag.
stop_requested_never(flag) == FALSE

\* if !stop_signal.load(..): the flag is false.
stop_requested(flag) == ~flag

\* The stop flag is false at the head of an iteration: return None.
measure_pwm_cancelled ==
    /\ pc = "measure_pwm"
    /\ measure_pwm_unsettled
    /\ stop_requested(running)
    /\ mp_res' = None
    /\ cancelled_at' = cancelled_at \cup {mp_ret}
    /\ pc' = mp_ret
    /\ UNCHANGED <<unitVars, running, panic_at, sig_phase, now, fanVars, mf, mf_res, mp,
                   mp_ret, hubVars>>

\* The stop flag is true at the head of an iteration: the thread sleeps.
measure_pwm_sleep ==
    /\ pc = "measure_pwm"
    /\ measure_pwm_unsettled
    /\ ~stop_requested(running)
    /\ pc' = "measure_pwm_sleep"
    /\ UNCHANGED <<unitVars, running, panic_at, sig_phase, now, fanVars, calVars, hubVars>>

\* The rest of the iteration after the sleep: update_input, push the sample,
\* and once more than RingLen samples were pushed, the mean and the largest
\* deviation from it. after_stop counts the samples of this call taken with
\* the stop flag false (none, one, or more than one).
\* The sample is get_value(), the fan's last value: after a failed read that
\* is the value of an earlier read. refreshed tells whether a read of this
\* call has succeeded, taken whether each sample of the buffer stems from a
\* read made after the PWM write of this call.
measure_pwm_sample ==
    /\ pc = "measure_pwm_sleep"
    /\ pc' = "measure_pwm"
    /\ \E reading \in CalReadings(cur) :
        LET fs == update_input(fan[cur], reading)
            rpms == PushSample(mp.rpms, fs.last_val)
            full == BufferFull(mp.rpms)
            mean == IF full THEN MeanOf(rpms) ELSE mp.mean
            refreshed == mp.refreshed \/ reading # None
        IN  /\ fan' = [fan EXCEPT ![cur] = fs]
            /\ mp' = [mp EXCEPT !.rpms = rpms,
                                !.mean = mean,
                                !.max_diff = IF full THEN MaxDiffOf(rpms, mean)
                                             ELSE mp.max_diff,
                                !.taken = PushSample(mp.taken, refreshed),
                                !.refreshed = refreshed,
                                !.after_stop = IF running \/ @ > 1 THEN @
                                               ELSE @ + 1]
            /\ rd' = input_read(cur, reading, fan[cur].last_val, FALSE)
    /\ UNCHANGED <<unitVars, running, panic_at, sig_phase, now, conf, out, hw, sim,
                   backend, cur, upd, low_since,
                   mf, mf_res, mp_ret, mp_res, cancelled_at, visited, temp,
                   done_sensors, done_curves, done_fans, config_file,
                   selected_config, lk, tk>>

\* The loop condition fails: return Some(mean).
measure_pwm_settled ==
    /\ pc = "measure_pwm"
    /\ ~measure_pwm_unsettled
    /\ mp_res' = mp.mean
    /\ pc' = mp_ret
    /\ UNCHANGED <<unitVars, running, panic_at, sig_phase, now, fanVars, mf, mf_res, mp,
                   mp_ret, cancelled_at, hubVars>>

(* ------------------------------------------------------------ measure_fan *)
\* measure_fan returns to its caller.
measure_fan_return(res) ==
    /\ mf_res' = res
    /\ pc' = "measure_fan_ret"

\* mf.probes counts the probes the binary search has issued and mf.width is
\* max_pwm - min_pwm at the latest of them; mf.descents counts the probes
\* of the descent.
\* The head of the binary search with the bounds max_pwm and min_pwm: once
\* they are at most one apart, self.min_pwm = 0 and the fan is driven at
\* 255; otherwise the midpoint is probed.
binary_search_head(max_pwm, min_pwm, fs) ==
    IF max_pwm - min_pwm <= 1
    THEN /\ fan' = [fan EXCEPT ![cur] = [fs EXCEPT !.min_pwm = 0]]
         /\ mf' = [mf EXCEPT !.max_pwm = max_pwm, !.min_pwm = min_pwm]
         /\ measure_pwm_call(U8Max, "ret_max")
    ELSE LET pwm == (max_pwm - min_pwm) \div 2 + min_pwm
         IN  /\ fan' = [fan EXCEPT ![cur] = fs]
             /\ mf' = [mf EXCEPT !.max_pwm = max_pwm, !.min_pwm = min_pwm,
                                 !.pwm = pwm, !.probes = @ + 1,
                                 !.width = max_pwm - min_pwm]
             /\ measure_pwm_call(pwm, "ret_probe")

\* The descent `for pwm in (0..bound).rev()` with `left` values still to
\* come: the next one is left - 1; with none left the pair is returned.
descent_head(left, fs) ==
    IF left = 0
    THEN /\ fan' = [fan EXCEPT ![cur] = fs]
         /\ measure_fan_return(<<fs.min_pwm, fs.start_pwm>>)
         /\ UNCHANGED <<mf, mp, mp_ret>>
    ELSE /\ fan' = [fan EXCEPT ![cur] = fs]
         /\ mf' = [mf EXCEPT !.pwm = left - 1, !.descents = @ + 1]
         /\ measure_pwm_call(left - 1, "ret_desc")
         /\ UNCHANGED mf_res

\* measure_fan, up to its first measure_pwm(0, ..).
measure_fan_start ==
    /\ pc = "measure_fan"
    /\ mf' = [max_pwm |-> U8Max, min_pwm |-> 0, pwm |-> 0, probes |-> 0,
              width |-> U8Max, descents |-> 0]
    /\ measure_pwm_call(0, "ret_init")
    /\ UNCHANGED <<unitVars, running, panic_at, sig_phase, now, fanVars, mf_res, mp_res,
                   cancelled_at, hubVars>>

\* The first measurement is unwrapped: a cancelled one panics.
measure_fan_init_panic ==
    /\ pc = "ret_init"
    /\ mp_res = None
    /\ Panic("fan.rs:175")
    /\ UNCHANGED <<unitVars, running, sig_phase, now, fanVars, calVars, hubVars>>

\* The fan does not stop at PWM 0: both bounds of the search become 0.
measure_fan_init ==
    /\ pc = "ret_init"
    /\ mp_res # None
    /\ IF mp_res # 0
       THEN binary_search_head(0, 0, fan[cur])
       ELSE binary_search_head(mf.max_pwm, mf.min_pwm, fan[cur])
    /\ UNCHANGED <<unitVars, running, panic_at, sig_phase, now, conf, out, hw, sim,
                   backend, cur, upd, low_since, mf_res, mp_res, cancelled_at,
                   hubVars>>

\* A probe of the binary search was cancelled: measure_fan returns None.
measure_fan_probe_cancelled ==
    /\ pc = "ret_probe"
    /\ mp_res = None
    /\ measure_fan_return(<<>>)
    /\ UNCHANGED <<unitVars, running, panic_at, sig_phase, now, fanVars, mf, mp, mp_ret,
                   mp_res, cancelled_at, hubVars>>

\* The fan turned at the probe: it is the new upper bound and start_pwm,
\* and the fan is measured at 0 again.
measure_fan_probe_spins ==
    /\ pc = "ret_probe"
    /\ mp_res # None
    /\ mp_res # 0
    /\ mf' = [mf EXCEPT !.max_pwm = mf.pwm]
    /\ fan' = [fan EXCEPT ![cur].start_pwm = mf.pwm]
    /\ measure_pwm_call(0, "ret_restore")
    /\ UNCHANGED <<unitVars, running, panic_at, sig_phase, now, conf, out, hw, sim,
                   backend, cur, upd, low_since, mf_res, mp_res, cancelled_at,
                   hubVars>>

\* The fan stood still at the probe: it is the new lower bound.
measure_fan_probe_stopped ==
    /\ pc = "ret_probe"
    /\ mp_res = 0
    /\ binary_search_head(mf.max_pwm, mf.pwm, fan[cur])
    /\ UNCHANGED <<unitVars, running, panic_at, sig_phase, now, conf, out, hw, sim,
                   backend, cur, upd, low_since, mf_res, mp_res, cancelled_at,
                   hubVars>>

\* The result of the measurement at 0 after a probe is dropped.
measure_fan_restored ==
    /\ pc = "ret_restore"
    /\ binary_search_head(mf.max_pwm, mf.min_pwm, fan[cur])
    /\ UNCHANGED <<unitVars, running, panic_at, sig_phase, now, conf, out, hw, sim,
                   backend, cur, upd, low_since, mf_res, mp_res, cancelled_at,
                   hubVars>>

\* The measurement at 255 is unwrapped: a cancelled one panics.
measure_fan_max_panic ==
    /\ pc = "ret_max"
    /\ mp_res = None
    /\ Panic("fan.rs:213")
    /\ UNCHANGED <<unitVars, running, sig_phase, now, fanVars, calVars, hubVars>>

\* self.start_pwm + 3 overflows a u8.
descent_overflows(fs) == fs.start_pwm + 3 > U8Max

\* The bound of the descent, 0..self.start_pwm + 3, in u8 arithmetic.
descent_bound(fs) == (fs.start_pwm + 3) % (U8Max + 1)

\* With overflow checks (a debug build) the overflowing addition panics.
measure_fan_overflow_panic ==
    /\ pc = "ret_max"
    /\ mp_res # None
    /\ descent_overflows(fan[cur])
    /\ Panic("fan.rs:214")
    /\ UNCHANGED <<unitVars, running, sig_phase, now, fanVars, calVars, hubVars>>

\* The descent starts (without overflow checks the bound wraps).
measure_fan_descent_start ==
    /\ pc = "ret_max"
    /\ mp_res # None
    /\ descent_head(descent_bound(fan[cur]), fan[cur])
    /\ UNCHANGED <<unitVars, running, panic_at, sig_phase, now, conf, out, hw, sim,
                   backend, cur, upd, low_since, mp_res, cancelled_at, hubVars>>

\* A probe of the descent was cancelled: measure_fan returns None.
measure_fan_descent_cancelled ==
    /\ pc = "ret_desc"
    /\ mp_res = None
    /\ measure_fan_return(<<>>)
    /\ UNCHANGED <<unitVars, running, panic_at, sig_phase, now, fanVars, mf, mp, mp_ret,
                   mp_res, cancelled_at, hubVars>>

\* The fan stopped at this PWM: the descent breaks and the pair is returned.
measure_fan_descent_stopped ==
    /\ pc = "ret_desc"
    /\ mp_res = 0
    /\ measure_fan_return(<<fan[cur].min_pwm, fan[cur].start_pwm>>)
    /\ UNCHANGED <<unitVars, running, panic_at, sig_phase, now, fanVars, mf, mp, mp_ret,
                   mp_res, cancelled_at, hubVars>>

\* The fan still turns at this PWM: it is the new min_pwm.
measure_fan_descent_spins ==
    /\ pc = "ret_desc"
    /\ mp_res # None
    /\ mp_res # 0
    /\ descent_head(mf.pwm, [fan[cur] EXCEPT !.min_pwm = mf.pwm])
    /\ UNCHANGED <<unitVars, running, panic_at, sig_phase, now, conf, out, hw, sim,
                   backend, cur, upd, low_since, mp_res, cancelled_at, hubVars>>

measure_fan_steps ==
    \/ measure_fan_start
    \/ measure_fan_init_panic
    \/ measure_fan_init
    \/ measure_fan_probe_cancelled
    \/ measure_fan_probe_spins
    \/ measure_fan_probe_stopped
    \/ measure_fan_restored
    \/ measure_fan_max_panic
    \/ measure_fan_overflow_panic
    \/ measure_fan_descent_start
    \/ measure_fan_descent_cancelled
    \/ measure_fan_descent_stopped
    \/ measure_fan_descent_spins

(* ------------------------------------------------------ the signal thread *)
InCalibration ==
    pc \in {"measure_fan", "measure_pwm_enter", "measure_pwm",
            "measure_pwm_sleep", "ret_init",
            "ret_probe", "ret_restore", "ret_max", "ret_desc"}

InTick == pc \in {"tick_sensors", "tick_curves", "tick_fans", "tick_sleep"}

Alive == pc \notin {"exit", "panic"}

MainPhase ==
    IF InCalibration THEN "calibration"
    ELSE IF InTick THEN "tick"
    ELSE pc

\* SIGINT or SIGTERM: running.store(false).
signal ==
    /\ Alive
    /\ running
    /\ running' = FALSE
    /\ sig_phase' = MainPhase
    /\ UNCHANGED <<unitVars, pc, panic_at, now, fanVars, calVars, hubVars>>

(* ----------------------------------------------------- calibration alone *)
\* The thresholds of the simulated fans.
CalValues ==
    (0..CalLow) \cup {TestMinPwm, TestStartPwm} \cup ((U8Max - CalHigh)..U8Max)

CalThresholds ==
    {[min |-> m, start |-> s] : m \in CalValues, s \in CalValues} \
        {t \in [min : CalValues, start : CalValues] : t.min > t.start}

\* The configurations of a fan that setup_fans calibrates: minpwm or
\* startpwm is absent.
UnconfiguredFans ==
    {c \in [minpwm : {None, TestMinPwm}, startpwm : {None, TestStartPwm}] :
        c.minpwm = None \/ c.startpwm = None}

ConfiguredFan == [minpwm |-> TestMinPwm, startpwm |-> TestStartPwm]

\* main: the paths the configuration is looked for at, in this order; the
\* first one that exists is selected and loaded.
config_search_paths ==
    <<"config.yaml", "~/.config/rufaco/config.yaml", "/etc/rufaco/config.yaml">>

SearchPaths == {config_search_paths[i] : i \in 1..Len(config_search_paths)}

NoLocals ==
    [fan |-> "none", percentage |-> 0, rpm |-> 0, time |-> 0, min_pwm |-> 0,
     pwm_val |-> 0]

InitIdle ==
    /\ running = TRUE
    /\ panic_at = "none"
    /\ sig_phase = "none"
    /\ now = 0
    /\ out = [f \in Fans |-> 0]
    /\ hw = [f \in Fans |-> FALSE]
    /\ mf = [max_pwm |-> U8Max, min_pwm |-> 0, pwm |-> 0, probes |-> 0,
             width |-> U8Max, descents |-> 0]
    /\ mf_res = <<>>
    /\ mp = [pwm |-> 0, max_diff |-> InitialMaxDiff, rpms |-> <<>>, mean |-> 0,
             taken |-> <<>>, refreshed |-> FALSE, after_stop |-> 0,
             writes |-> 0]
    /\ mp_ret = "none"
    /\ mp_res = None
    /\ cancelled_at = {}
    /\ upd = NoLocals
    /\ low_since = [f \in Fans |-> None]
    /\ visited = {}
    /\ temp = [s \in Sensors |-> 0]
    /\ done_sensors = {}
    /\ done_curves = {}
    /\ done_fans = {}
    /\ lk = NoLocks
    /\ tk = NoTick

\* test_measure: one fan on the mock input and output, calibrated directly.
InitCal ==
    /\ InitIdle
    /\ pc = "measure_fan"
    /\ cur = "fan1"
    /\ backend = [f \in Fans |-> "mock"]
    /\ \E c \in UnconfiguredFans :
        conf = [f \in Fans |-> IF f = "fan1" THEN c ELSE ConfiguredFan]
    /\ \E t \in CalThresholds :
        sim = [f \in Fans |-> IF f = "fan1" THEN t
                              ELSE [min |-> TestMinPwm, start |-> TestStartPwm]]
    /\ fan = [f \in Fans |-> FanNew(conf[f])]
    /\ config_file = [written |-> FALSE, path |-> "none", fans |-> conf]
    /\ selected_config = config_search_paths[1]
    /\ rd = NoInput
    /\ NoUnits

NextCal ==
    \/ signal
    \/ measure_pwm_write
    \/ measure_pwm_cancelled
    \/ measure_pwm_sleep
    \/ measure_pwm_sample
    \/ measure_pwm_settled
    \/ measure_fan_steps

SpecCal == InitCal /\ [][NextCal]_vars

\* The steps of the main thread in measure_fan.
MainCal ==
    \/ measure_pwm_write
    \/ measure_pwm_cancelled
    \/ measure_pwm_sleep
    \/ measure_pwm_sample
    \/ measure_pwm_settled
    \/ measure_fan_steps

\* The main thread is scheduled as long as it can take a step.
SpecCalFair == SpecCal /\ WF_vars(MainCal)

(* ------------------------------------------------------------ curve graph *)
\* The curves of the hub: a static curve, and a maximum over a temperature
\* source and that curve.
CurveConf ==
    [curve1 |-> [type |-> "static", value |-> 5, sensors |-> <<>>],
     curve2 |-> [type |-> "maximum", value |-> 0,
                 sensors |-> <<"temp1", "curve1">>]]

\* The curve each fan is bound to.
FanCurve == [fan1 |-> "curve1", fan2 |-> "curve2"]

\* What the temperature inputs read, in millidegrees.
TempReadings == {0, 60}

\* The values a hwmon temperature read can deliver: a read can fail (None).
TempInputs == TempReadings \cup {None}

\* TempSensor::update_input: a read error keeps the previous value.
temp_update_input(last_val, reading) ==
    IF reading = None THEN last_val ELSE reading

\* ReadableValue::get_value of a source or a curve.
RECURSIVE get_value(_)
get_value(id) ==
    IF id \in Sensors THEN temp[id]
    ELSE LET c == CurveConf[id]
             vals == {get_value(c.sensors[i]) : i \in 1..Len(c.sensors)}
         IN  CASE c.type = "static" -> c.value
               [] c.type = "maximum" -> IF vals = {} THEN 0 ELSE MaxOf(vals)

(* ------------------------------------------------ start-up: setup of fans *)
\* If any of the pwm settings is none the fan is measured.
needs_measurement(c) == c.minpwm = None \/ c.startpwm = None

\* The for_each over the fans reaches fan f, which needs no measurement.
setup_skip(f) ==
    /\ pc = "setup"
    /\ f \notin visited
    /\ ~needs_measurement(conf[f])
    /\ cur' = f
    /\ visited' = visited \cup {f}
    /\ UNCHANGED <<unitVars, envVars, conf, fan, out, hw, sim, backend, upd, low_since,
                   calVars, temp, done_sensors, done_curves, done_fans,
                   config_file, rd, selected_config, lk, tk>>

\* The for_each reaches fan f, which is measured now.
setup_measure(f) ==
    /\ pc = "setup"
    /\ f \notin visited
    /\ needs_measurement(conf[f])
    /\ cur' = f
    /\ pc' = "measure_fan"
    /\ UNCHANGED <<unitVars, running, panic_at, sig_phase, now, conf, fan, out, hw, sim,
                   backend, upd, low_since, calVars, hubVars>>

\* measure_fan returned None and the result is unwrapped: panic.
setup_unwrap_panic ==
    /\ pc = "measure_fan_ret"
    /\ mf_res = <<>>
    /\ Panic("main.rs:260")
    /\ UNCHANGED <<unitVars, running, sig_phase, now, fanVars, calVars, hubVars>>

\* measure_fan returned a pair: it is stored in the configuration, which is
\* written to config.yaml.
setup_store ==
    /\ pc = "measure_fan_ret"
    /\ mf_res # <<>>
    /\ conf' = [conf EXCEPT ![cur] = [minpwm |-> mf_res[1], startpwm |-> mf_res[2]]]
    /\ config_file' = [written |-> TRUE, path |-> "config.yaml", fans |-> conf']
    /\ visited' = visited \cup {cur}
    /\ pc' = "setup"
    /\ UNCHANGED <<unitVars, running, panic_at, sig_phase, now, fan, out, hw, sim,
                   backend, cur, upd, low_since, calVars, temp, done_sensors,
                   done_curves, done_fans, rd, selected_config, lk, tk>>

\* A for_each over the fans that may end before its last element.
setup_finished_early(seen) == seen \subseteq Fans

\* The for_each over the fans returns once it has gone through all of them.
setup_finished(seen) == seen = Fans

\* The for_each has gone through every fan: the control loop is next.
setup_done ==
    /\ pc = "setup"
    /\ setup_finished(visited)
    /\ pc' = "loop"
    /\ UNCHANGED <<unitVars, running, panic_at, sig_phase, now, fanVars, calVars, hubVars>>

(* ------------------------------------------------------- the control loop *)
\* The steps by which the clock is seen to move between two updates.
ClockSteps == {1, ZeroPercentSecs}

\* while running.load(..): the flag is false and the loop ends.
loop_exit ==
    /\ pc = "loop"
    /\ ~running
    /\ pc' = "exit"
    /\ UNCHANGED <<unitVars, running, panic_at, sig_phase, now, fanVars, calVars, hubVars>>

\* The flag is true: a tick starts.
tick_start ==
    /\ pc = "loop"
    /\ running
    /\ pc' = "tick_sensors"
    /\ done_sensors' = {}
    /\ done_curves' = {}
    /\ done_fans' = {}
    /\ rd' = [NoInput EXCEPT !.budget = rd.budget]
    /\ UNCHANGED <<unitVars, running, panic_at, sig_phase, now, fanVars, calVars,
                   visited, temp, config_file, selected_config, lk, tk>>

\* A for_each over the sensors that stops after its first element.
sensors_refreshed_early(done) == done # {}

\* The for_each over the sensors has gone through all of them.
sensors_refreshed(done) == done = Sensors

\* The for_each over the curves has gone through all of them.
curves_updated(done) == done = Curves

\* The for_each over the fans has gone through all of them.
fans_updated(done) == done = Fans

\* First update all sensors: update_input of one more sensor.
tick_sensor(s) ==
    /\ pc = "tick_sensors"
    /\ s \notin done_sensors
    /\ \E reading \in TempInputs :
        /\ temp' = [temp EXCEPT ![s] = temp_update_input(temp[s], reading)]
        /\ rd' = input_read(s, reading, temp[s], TRUE)
    /\ done_sensors' = done_sensors \cup {s}
    /\ pc' = IF sensors_refreshed(done_sensors') THEN "tick_curves" ELSE pc
    /\ UNCHANGED <<unitVars, running, panic_at, sig_phase, now, fanVars, calVars,
                   visited, done_curves, done_fans, config_file,
                   selected_config, lk, tk>>

\* update_value of one more curve (the curves of CurveConf keep no state).
tick_curve(c) ==
    /\ pc = "tick_curves"
    /\ c \notin done_curves
    /\ done_curves' = done_curves \cup {c}
    /\ pc' = IF curves_updated(done_curves') THEN "tick_fans" ELSE pc
    /\ UNCHANGED <<unitVars, running, panic_at, sig_phase, now, fanVars, calVars,
                   visited, temp, done_sensors, done_fans, config_file, rd,
                   selected_config, lk, tk>>

\* Then update all fans: update_output of one more fan.
tick_fan(f) ==
    /\ pc = "tick_fans"
    /\ f \notin done_fans
    /\ \E reading \in Readings(f) :
        /\ update_output(f, reading, get_value(FanCurve[f]))
        /\ rd' = input_read(f, reading, fan[f].last_val, TRUE)
    /\ cur' = f
    /\ done_fans' = done_fans \cup {f}
    /\ pc' = IF fans_updated(done_fans') THEN "tick_sleep" ELSE pc
    /\ UNCHANGED <<unitVars, running, panic_at, sig_phase, now, conf, sim, backend,
                   calVars, visited, temp, done_sensors, done_curves,
                   config_file, selected_config, lk, tk>>

\* update_output of one more fan, whose PWM write fails.
tick_fan_panic(f) ==
    /\ pc = "tick_fans"
    /\ f \notin done_fans
    /\ \E reading \in Readings(f) :
        /\ update_output_panic(f, reading, get_value(FanCurve[f]))
        /\ rd' = input_read(f, reading, fan[f].last_val, TRUE)
    /\ cur' = f
    /\ UNCHANGED <<unitVars, running, sig_phase, now, conf, sim, backend, calVars,
                   visited, temp, done_sensors, done_curves, done_fans,
                   config_file, selected_config, lk, tk>>

\* The time the main thread is seen to spend in thread::sleep(100 ms): less
\* than a second, or (descheduled) more than the latch's 10 s.
SleepSteps == {0, ZeroPercentSecs + 1}

\* thread::sleep(100 ms).
tick_sleep ==
    /\ pc = "tick_sleep"
    /\ \E dt \in SleepSteps :
        /\ now + dt <= MaxTime
        /\ now' = now + dt
    /\ pc' = "loop"
    /\ UNCHANGED <<unitVars, running, panic_at, sig_phase, fanVars, calVars, hubVars>>

(* ---------------------------------------------------------- the program *)
\* The thresholds of the physical fans of the hub: one fan starts early,
\* the other only close to full power.
HubFan ==
    [fan1 |-> [min |-> 1, start |-> 2],
     fan2 |-> [min |-> 1, start |-> U8Max - 1]]

\* main: the configuration is loaded, the nodes are built, and the signal
\* thread is started; the fans are set up next.
InitHub ==
    /\ InitIdle
    /\ pc = "setup"
    /\ cur = "fan1"
    /\ backend = [f \in Fans |-> "hwmon"]
    /\ \E c1 \in UnconfiguredFans, c2 \in UnconfiguredFans \cup {ConfiguredFan} :
        conf = [f \in Fans |-> IF f = "fan1" THEN c1 ELSE c2]
    /\ sim = HubFan
    /\ fan = [f \in Fans |-> FanNew(conf[f])]
    /\ config_file = [written |-> FALSE, path |-> "none", fans |-> conf]
    /\ selected_config \in SearchPaths
    /\ rd = [NoInput EXCEPT !.budget = HubFailedReads]
    /\ NoUnits

NextHub ==
    \/ signal
    \/ \E f \in Fans : setup_skip(f) \/ setup_measure(f)
    \/ setup_unwrap_panic
    \/ setup_store
    \/ setup_done
    \/ measure_pwm_write
    \/ measure_pwm_write_panic
    \/ measure_pwm_cancelled
    \/ measure_pwm_sleep
    \/ measure_pwm_sample
    \/ measure_pwm_settled
    \/ measure_fan_steps
    \/ loop_exit
    \/ tick_start
    \/ \E s \in Sensors : tick_sensor(s)
    \/ \E c \in Curves : tick_curve(c)
    \/ \E f \in Fans : tick_fan(f) \/ tick_fan_panic(f)
    \/ tick_sleep

SpecHub == InitHub /\ [][NextHub]_vars

Spec == SpecHub

(* ------------------------------------------------- the fan stage alone *)
\* The values the bound curve returns.
Demands == {-1, 0, 1, 9, 10, 19, 20, 100, 150}

\* The values the mocked fan input of test_fan reads.
RpmInputs == {0, 1, 4242}

\* The fans of the fan stage: the one of test_fan and one with higher
\* thresholds.
StageFans == {ConfiguredFan, [minpwm |-> 60, startpwm |-> 80]}

\* test_fan: one fan on a mocked input and a curve that is set freely.
InitFan ==
    /\ InitIdle
    /\ pc = "fan_stage"
    /\ cur = "fan1"
    /\ backend = [f \in Fans |-> "mock"]
    /\ \E c \in StageFans :
        conf = [f \in Fans |-> IF f = "fan1" THEN c ELSE ConfiguredFan]
    /\ sim = [f \in Fans |-> [min |-> 0, start |-> 0]]
    /\ fan = [f \in Fans |-> FanNew(conf[f])]
    /\ config_file = [written |-> FALSE, path |-> "none", fans |-> conf]
    /\ selected_config = config_search_paths[1]
    /\ rd = NoInput
    /\ NoUnits

\* The curve returns p, the input reads rpm, and update_output runs.
fan_stage_update ==
    /\ pc = "fan_stage"
    /\ \E p \in Demands, rpm \in RpmInputs :
        /\ update_output(cur, rpm, p)
        /\ rd' = input_read(cur, rpm, fan[cur].last_val, TRUE)
    /\ UNCHANGED <<unitVars, envVars, conf, sim, backend, cur, calVars, visited, temp,
                   done_sensors, done_curves, done_fans, config_file,
                   selected_config, lk, tk>>

\* Time passes.
clock_advance ==
    /\ pc = "fan_stage"
    /\ \E dt \in ClockSteps :
        /\ now + dt <= MaxTime
        /\ now' = now + dt
    /\ UNCHANGED <<unitVars, running, pc, panic_at, sig_phase, fanVars, calVars, hubVars>>

NextFan ==
    \/ fan_stage_update
    \/ clock_advance

SpecFan == InitFan /\ [][NextFan]_vars

(* ------------------------------------------------- claims on the fan stage *)
Updated == upd.fan # "none"

\* C6: the PWM an update writes is at most 255 and is 0 or at least the
\* fan's min_pwm.
C6_ZeroOrAboveMinPwm ==
    Updated => /\ out[upd.fan] <= U8Max
               /\ out[upd.fan] = 0 \/ out[upd.fan] >= fan[upd.fan].min_pwm

\* How long the demand had been below 10% at the last update.
LowFor == upd.time - low_since[upd.fan]

\* C7: a turning fan whose demand has been below 10% for at most 10 s keeps
\* the floor min_pwm and gets a PWM of at least min_pwm; after more than
\* 10 s the floor is 0 (and demand 0 writes 0); a demand of 10% or more
\* clears the timer.
C7_StopLatch ==
    (Updated /\ upd.rpm >= 1) =>
        /\ (upd.percentage < ZeroPercent /\ LowFor <= ZeroPercentSecs)
            => /\ upd.min_pwm = fan[upd.fan].min_pwm
               /\ out[upd.fan] >= fan[upd.fan].min_pwm
        /\ (upd.percentage < ZeroPercent /\ LowFor > ZeroPercentSecs)
            => /\ upd.min_pwm = 0
               /\ upd.percentage = 0 => out[upd.fan] = 0
        /\ upd.percentage >= ZeroPercent
            => fan[upd.fan].zero_percent_time = None

\* C8: a fan reading 0 RPM with a demand in [0, start_percent) gets the
\* floor 0 and a PWM of at most start_pwm.
C8_StoppedFanBelowStart ==
    (Updated /\ upd.rpm = 0 /\ 0 <= upd.percentage /\ upd.percentage < StartPercent)
        => /\ upd.min_pwm = 0
           /\ out[upd.fan] <= fan[upd.fan].start_pwm

(* ------------------------------------------------- claims on calibration *)
Returned == pc = "measure_fan_ret"
ReturnedSome == Returned /\ mf_res # <<>>
Unconfigured == conf[cur].minpwm = None /\ conf[cur].startpwm = None

\* C1: with the stop flag never cleared, measure_fan on a fan that starts at
\* PWM >= S and keeps turning until PWM < M ends by returning exactly (M, S).
C1_ReturnsThresholds ==
    (running /\ Unconfigured /\ pc \in {"measure_fan_ret", "panic"})
        => (Returned /\ mf_res = <<sim[cur].min, sim[cur].start>>)

\* C2: a returned pair (min_pwm, start_pwm) has min_pwm <= start_pwm.
C2_MinAtMostStart ==
    ReturnedSome => mf_res[1] <= mf_res[2]

\* C3: a fan that still turns at PWM 0 gets min_pwm = start_pwm = 0 and the
\* pair (0, 0), whatever it was constructed with.
NeverStops == sim[cur].start = 0
C3_NonStoppableIsZero ==
    (NeverStops /\ running /\ pc \in {"measure_fan_ret", "panic"})
        => (Returned /\ mf_res = <<0, 0>>
            /\ fan[cur].min_pwm = 0 /\ fan[cur].start_pwm = 0)

\* C4: once an inner measure_pwm was cancelled, measure_fan neither fails nor
\* returns a pair: it returns None.
C4_CancelPropagates ==
    (cancelled_at # {} /\ pc \in {"measure_fan_ret", "panic"})
        => (Returned /\ mf_res = <<>>)

(* ----------------------------------------------------- claims on the hub *)
\* The panics of a cancelled calibration: the unwraps of a None.
UnwrapPanics == {"fan.rs:175", "fan.rs:213", "main.rs:260"}

\* C5: a calibration cancelled by a signal ends the process cleanly: the
\* main thread does not panic on the cancelled measurement and does not
\* enter the control loop.
C5_CancelledCalibrationStopsCleanly ==
    (sig_phase = "calibration" /\ cancelled_at # {})
        => (panic_at \notin UnwrapPanics /\ ~InTick)

\* C9: in every tick all sensors are refreshed before any curve is updated
\* and all curves are updated before any fan is; the phases do not
\* interleave.
C9_PhasesInOrder ==
    /\ (pc = "tick_curves" \/ done_curves # {}) => done_sensors = Sensors
    /\ (pc = "tick_fans" \/ done_fans # {}) => done_curves = Curves
    /\ pc = "tick_sensors" => (done_curves = {} /\ done_fans = {})
    /\ pc = "tick_curves" => done_fans = {}

\* A tick in which one fan has been updated and the other has not.
C9_Witness ==
    /\ pc = "tick_fans"
    /\ done_fans # {}
    /\ done_fans # Fans
    /\ done_sensors = Sensors
    /\ done_curves = Curves

\* C10: once the flag was cleared during a tick, the tick in flight runs to
\* its end (no step of it aborts the process), and with the flag cleared no
\* further tick starts: the loop head leaves the loop.
C10_TickCompletesThenExit ==
    [][/\ sig_phase = "tick" => pc' # "panic"
       /\ (pc = "loop" /\ ~running) => pc' = "exit"]_vars

(* ------------------------------------------------------- f32 arithmetic *)
\* An f32 is [m, e] and stands for m * 2^e; m carries at most 24 bits.
Pow2(n) == 2 ^ n

Sign(x) == IF x < 0 THEN -1 ELSE 1

\* The number of bits of n >= 0.
BitLen(n) ==
    IF n >= Pow2(30) THEN 31
    ELSE CHOOSE k \in 0..30 : n < Pow2(k) /\ (k = 0 \/ n >= Pow2(k - 1))

\* n / 2^k rounded to the nearest integer, ties to even (n >= 0).
RoundShift(n, k) ==
    IF k <= 0 THEN n
    ELSE LET q == n \div Pow2(k)
             r == n % Pow2(k)
             half == Pow2(k - 1)
         IN  IF r > half \/ (r = half /\ q % 2 = 1) THEN q + 1 ELSE q

\* The f32 nearest to mant * 2^e: the mantissa is cut to 24 bits.
F32Round(mant, e) ==
    LET k == BitLen(Abs(mant)) - 24
    IN  IF k <= 0 THEN [m |-> mant, e |-> e]
        ELSE [m |-> Sign(mant) * RoundShift(Abs(mant), k), e |-> e + k]

\* `i as f32` of a small integer is exact.
F32FromInt(i) == [m |-> i, e |-> 0]

\* a as f32 / b as f32, rounded to the nearest f32.
F32Div(a, b) ==
    IF a = 0 THEN F32FromInt(0)
    ELSE LET s == 24 + BitLen(Abs(b)) - BitLen(Abs(a))
             n == Abs(a) * Pow2(s)
             q == n \div Abs(b)
             r == n % Abs(b)
             sg == Sign(a) * Sign(b)
             \* the quotient has 24 or 25 bits and r is what is left of it
             q1 == IF 2 * r > Abs(b) \/ (2 * r = Abs(b) /\ q % 2 = 1)
                   THEN q + 1 ELSE q
             h == q \div 2
             q2 == IF q % 2 = 1 /\ (r > 0 \/ h % 2 = 1) THEN h + 1 ELSE h
         IN  IF q < Pow2(24) THEN [m |-> sg * q1, e |-> -s]
             ELSE [m |-> sg * q2, e |-> 1 - s]

\* f32::mul_add: a * x + c with a single rounding.
F32MulAdd(a, x, c) ==
    LET pe == a.e + x.e
        e == IF a.m * x.m = 0 THEN c.e
             ELSE IF c.m = 0 THEN pe
             ELSE IF pe < c.e THEN pe ELSE c.e
        prod == IF a.m * x.m = 0 THEN 0 ELSE a.m * x.m * Pow2(pe - e)
        add == IF c.m = 0 THEN 0 ELSE c.m * Pow2(c.e - e)
    IN  F32Round(prod + add, e)

\* `f as i32`: truncation toward zero.
F32ToI32(f) ==
    IF f.e >= 0 THEN f.m * Pow2(f.e)
    ELSE IF -f.e > 30 THEN 0
    ELSE Sign(f.m) * (Abs(f.m) \div Pow2(-f.e))

(* ------------------------------------------------------------ LinearCurve *)
\* LinearCurve::new: one function (m, b) per pair of neighbouring steps,
\* keyed by the lower step. steps is the BTreeMap in key order.
LinearFunction(low, high) ==
    LET m == F32Div(high[2] - low[2], high[1] - low[1])
        b == F32MulAdd(m, F32FromInt(-low[1]), F32FromInt(low[2]))
    IN  [x |-> low[1], m |-> m, b |-> b]

LinearCurve_new(steps) ==
    [i \in 1..(Len(steps) - 1) |-> LinearFunction(steps[i], steps[i + 1])]

\* functions.range((Unbounded, Included(input))).next_back()
RangeBefore(functions, input) ==
    {i \in 1..Len(functions) :
        /\ functions[i].x <= input
        /\ \A j \in 1..Len(functions) :
            functions[j].x <= input => functions[j].x <= functions[i].x}

\* LinearCurve::get_value on a sensor that reads sensor_value.
LinearCurve_get_value(functions, sensor_value) ==
    LET input == TruncDiv(sensor_value, 1000)
        before == RangeBefore(functions, input)
    IN  IF before = {} THEN 0
        ELSE LET f == functions[CHOOSE i \in before : TRUE]
             IN  F32ToI32(F32MulAdd(f.m, F32FromInt(input), f.b))

(* ------------------------------------------------ a linear curve alone *)
\* Every variable of the control program at rest, for the specifications
\* that exercise one unit on its own.
InitBench ==
    /\ InitIdle
    /\ pc = "bench"
    /\ cur = "fan1"
    /\ backend = [f \in Fans |-> "mock"]
    /\ conf = [f \in Fans |-> ConfiguredFan]
    /\ sim = [f \in Fans |-> [min |-> 0, start |-> 0]]
    /\ fan = [f \in Fans |-> FanNew(conf[f])]
    /\ config_file = [written |-> FALSE, path |-> "none", fans |-> conf]
    /\ selected_config = config_search_paths[1]
    /\ rd = NoInput

\* The steps a configuration can hold: a BTreeMap<i32, i32>, so the keys are
\* distinct and iterated in ascending order.
LinPoints == (0..LinMaxX) \X (0..LinMaxY)

LinSteps ==
    {<<>>} \cup {<<p>> : p \in LinPoints}
      \cup {t \in LinPoints \X LinPoints : t[1][1] < t[2][1]}
      \cup {t \in LinPoints \X LinPoints \X LinPoints :
                t[1][1] < t[2][1] /\ t[2][1] < t[3][1]}

\* What the sensor of the curve reads, in millidegrees.
LinInputs ==
    {-1000, -1, 999, 1999} \cup {1000 * x : x \in 0..(LinMaxX + 2)}

InitLinear ==
    /\ InitBench
    /\ \E st \in LinSteps :
        lc = [stage |-> "conf", steps |-> st, functions |-> <<>>,
              sensor |-> 0, value |-> 0]
    /\ ag = IdleUnit
    /\ pidc = IdleUnit
    /\ sv = IdleUnit
    /\ ld = IdleUnit

\* LinearCurve::new on a configuration with at least one step.
linear_new ==
    /\ lc.stage = "conf"
    /\ lc.steps # <<>>
    /\ lc' = [lc EXCEPT !.stage = "built",
                        !.functions = LinearCurve_new(lc.steps)]
    /\ UNCHANGED <<envVars, fanVars, calVars, hubVars, ag, pidc, sv, ld>>

\* LinearCurve::new on no steps: it.next().unwrap() panics.
linear_new_panic ==
    /\ lc.stage = "conf"
    /\ lc.steps = <<>>
    /\ lc' = [lc EXCEPT !.stage = "panic"]
    /\ UNCHANGED <<envVars, fanVars, calVars, hubVars, ag, pidc, sv, ld>>

\* The sensor reads v and the curve is asked for its value.
linear_get ==
    /\ lc.stage \in {"built", "read"}
    /\ \E v \in LinInputs :
        lc' = [lc EXCEPT !.stage = "read", !.sensor = v,
                         !.value = LinearCurve_get_value(lc.functions, v)]
    /\ UNCHANGED <<envVars, fanVars, calVars, hubVars, ag, pidc, sv, ld>>

NextLinear ==
    \/ linear_new
    \/ linear_new_panic
    \/ linear_get

SpecLinear == InitLinear /\ [][NextLinear]_vars

(* ------------------------------------------- claims on the linear curve *)
LinearRead == lc.stage = "read" /\ Len(lc.steps) >= 2

\* C11: a linear curve whose sensor reads exactly the key of one of its
\* steps returns exactly the value of that step, the last step included.
C11_FixedPointAtSteps ==
    LinearRead =>
        \A i \in 1..Len(lc.steps) :
            lc.sensor = 1000 * lc.steps[i][1] => lc.value = lc.steps[i][2]

\* The piecewise function of the steps over the reals, truncated: 0 below
\* the first step, else the line of the segment that starts at the greatest
\* step at or below the input, the last segment serving everything above.
LinearReference(steps, sensor_value) ==
    LET input == TruncDiv(sensor_value, 1000)
        segs == {i \in 1..(Len(steps) - 1) : steps[i][1] <= input}
    IN  IF segs = {} THEN 0
        ELSE LET i == MaxOf(segs)
                 dx == steps[i + 1][1] - steps[i][1]
                 dy == steps[i + 1][2] - steps[i][2]
             IN  TruncDiv(steps[i][2] * dx + dy * (input - steps[i][1]), dx)

\* C12: the value of a linear curve is the reference piecewise function of
\* the input in whole degrees.
C12_EqualsPiecewiseReference ==
    LinearRead => lc.value = LinearReference(lc.steps, lc.sensor)

(* ------------------------------------------- MaximumCurve, AverageCurve *)
\* Iterator::max_by: a fold that keeps the later of two equal elements.
RECURSIVE max_by(_, _)
max_by(acc, rest) ==
    IF rest = <<>> THEN acc
    ELSE max_by(IF acc > Head(rest) THEN acc ELSE Head(rest), Tail(rest))

\* A maximum that answers with its first child.
MaximumCurve_first_child(vals) ==
    IF vals = <<>> THEN 0 ELSE Head(vals)

\* MaximumCurve::get_value over children with the values vals.
MaximumCurve_get_value(vals) ==
    IF vals = <<>> THEN 0 ELSE max_by(Head(vals), Tail(vals))

\* An average that rounds down.
AverageCurve_floor(vals) == SumSeq(vals) \div Len(vals)

\* AverageCurve::get_value over children with the values vals (at least
\* one): total / len on i32.
AverageCurve_get_value(vals) == TruncDiv(SumSeq(vals), Len(vals))

\* The values the children return.
AggValues == {-7, 0, 10, 50, 100}

AggChildren == UNION {[1..n -> AggValues] : n \in 0..AggMaxLen}

InitAggregate ==
    /\ InitBench
    /\ \E ch \in AggChildren :
        ag = [stage |-> "built", children |-> ch, max_read |-> FALSE,
              max |-> 0, avg_read |-> "no", avg |-> 0]
    /\ lc = IdleUnit
    /\ pidc = IdleUnit
    /\ sv = IdleUnit
    /\ ld = IdleUnit

\* get_value of a MaximumCurve over the children.
maximum_get ==
    /\ ag.stage = "built"
    /\ ~ag.max_read
    /\ ag' = [ag EXCEPT !.max_read = TRUE,
                        !.max = MaximumCurve_get_value(ag.children)]
    /\ UNCHANGED <<envVars, fanVars, calVars, hubVars, lc, pidc, sv, ld>>

\* get_value of an AverageCurve over the children.
average_get ==
    /\ ag.stage = "built"
    /\ ag.avg_read = "no"
    /\ ag.children # <<>>
    /\ ag' = [ag EXCEPT !.avg_read = "yes",
                        !.avg = AverageCurve_get_value(ag.children)]
    /\ UNCHANGED <<envVars, fanVars, calVars, hubVars, lc, pidc, sv, ld>>

\* get_value of an AverageCurve without children: total / 0 panics.
average_get_panic ==
    /\ ag.stage = "built"
    /\ ag.avg_read = "no"
    /\ ag.children = <<>>
    /\ ag' = [ag EXCEPT !.avg_read = "panic"]
    /\ UNCHANGED <<envVars, fanVars, calVars, hubVars, lc, pidc, sv, ld>>

NextAggregate ==
    \/ maximum_get
    \/ average_get
    \/ average_get_panic

SpecAggregate == InitAggregate /\ [][NextAggregate]_vars

(* --------------------------------------- claims on the aggregate curves *)
ChildValues == {ag.children[i] : i \in 1..Len(ag.children)}

\* C13: over a non-empty list of children a maximum curve returns the
\* greatest of their values, whatever their order and however often a child
\* is listed.
C13_MaximumIsGreatest ==
    (ag.max_read /\ ag.children # <<>>) =>
        /\ ag.max \in ChildValues
        /\ \A v \in ChildValues : v <= ag.max

\* Three children, the greatest neither first nor last and one listed twice.
C13_Witness ==
    /\ ag.max_read
    /\ ag.children = <<50, 100, 50>>
    /\ ag.max = 100

\* C14: over a non-empty list of children an average curve returns the sum
\* of their values divided by their number, truncated toward zero.
C14_AverageTruncates ==
    (ag.avg_read = "yes" /\ ag.children # <<>>) =>
        LET total == SumSeq(ag.children)
            n == Len(ag.children)
        IN  /\ Abs(ag.avg) * n <= Abs(total)
            /\ Abs(total) < (Abs(ag.avg) + 1) * n
            /\ ag.avg * total >= 0
            /\ n = 1 => ag.avg = ag.children[1]

\* The children of test_curve_avg: 160 / 3 is 53.
C14_Witness ==
    /\ ag.avg_read = "yes"
    /\ ag.children = <<10, 50, 100>>
    /\ ag.avg = 53

\* C15: without children a maximum curve and an average curve both return
\* 0 and neither fails.
C15_EmptyAggregatesAreZero ==
    ag.children = <<>> =>
        /\ ag.max_read => ag.max = 0
        /\ ag.avg_read # "panic"
        /\ ag.avg_read = "yes" => ag.avg = 0

(* ---------------------------------------------------------------- PidCurve *)
\* The controller computes on f32 degrees; the model keeps thousandths of a
\* degree, which is what the sensor delivers, and integer gains.
Milli(x) == 1000 * x

\* pid::apply_limit: clamp(value, -limit, limit).
apply_limit(limit, value) ==
    IF value < -limit THEN -limit ELSE IF value > limit THEN limit ELSE value

\* PidCurve::new: Pid::new(target, 100) with every term limited to 100.
PidCurve_new(kp, ki, kd, target) ==
    [stage |-> "built", kp |-> kp, ki |-> ki, kd |-> kd,
     setpoint |-> Milli(target), integral_term |-> 0, has_prev |-> FALSE,
     prev_measurement |-> 0, output |-> 0, last_val |-> 0]

\* Pid::next_control_output on a measurement: the controller after it, its
\* output in the field output.
next_control_output(c, measurement) ==
    LET error == c.setpoint - measurement
        pt == apply_limit(Milli(PidLimit), error * c.kp)
        it == apply_limit(Milli(PidLimit), c.integral_term + error * c.ki)
        d_unbounded ==
            IF c.has_prev THEN -((measurement - c.prev_measurement) * c.kd)
            ELSE 0
        dt == apply_limit(Milli(PidLimit), d_unbounded)
    IN  [c EXCEPT !.integral_term = it,
                  !.has_prev = TRUE,
                  !.prev_measurement = measurement,
                  !.output = apply_limit(Milli(PidLimit), pt + it + dt)]

\* An emitted value that keeps the sign of the controller output.
PidCurve_retval_same_sign(output) == TruncDiv(output, 1000)

\* PidCurve::update_value: the value emitted for a controller output.
PidCurve_retval(output) ==
    IF output < 0 THEN -TruncDiv(output, 1000) ELSE 0

\* PidCurve::update_value on a sensor that reads sensor_value.
PidCurve_update_value(c, sensor_value) ==
    LET after == next_control_output(c, sensor_value)
    IN  [after EXCEPT !.stage = "updated",
                      !.last_val = PidCurve_retval(after.output)]

\* PidCurve::get_value
PidCurve_get_value(c) == c.last_val

\* The gains (p, i, d) and the targets of the curves, and what the sensor
\* reads, in millidegrees.
PidGains == {<<1, 1, 1>>, <<0, 1, 0>>, <<2, 0, 1>>}
PidTargets == {0, 50}
PidInputs == {0, 20500, 49000, 51000, 100000}

InitPid ==
    /\ InitBench
    /\ \E g \in PidGains, t \in PidTargets :
        pidc = PidCurve_new(g[1], g[2], g[3], t)
    /\ lc = IdleUnit
    /\ ag = IdleUnit
    /\ sv = IdleUnit
    /\ ld = IdleUnit

\* The curves phase of a tick: the sensor reads v and update_value runs.
pid_update ==
    /\ pidc.stage \in {"built", "updated"}
    /\ \E v \in PidInputs : pidc' = PidCurve_update_value(pidc, v)
    /\ UNCHANGED <<envVars, fanVars, calVars, hubVars, lc, ag, sv, ld>>

\* PidCurve::set_target
pid_set_target ==
    /\ pidc.stage \in {"built", "updated"}
    /\ \E t \in PidTargets : pidc' = [pidc EXCEPT !.setpoint = Milli(t)]
    /\ UNCHANGED <<envVars, fanVars, calVars, hubVars, lc, ag, sv, ld>>

NextPid ==
    \/ pid_update
    \/ pid_set_target

SpecPid == InitPid /\ [][NextPid]_vars

(* ----------------------------------------------- claims on the PID curve *)
\* C16: after every update the emitted value is the controller output with
\* its sign inverted and its fraction cut when that output is negative, and
\* 0 otherwise; what get() returns lies within [0, 100].
C16_PidEmitsInvertedOutput ==
    pidc.stage = "updated" =>
        LET v == PidCurve_get_value(pidc)
        IN  /\ pidc.output < 0 =>
                (1000 * v <= -pidc.output /\ -pidc.output < 1000 * (v + 1))
            /\ pidc.output >= 0 => v = 0
            /\ 0 <= v /\ v <= 100

\* An update whose controller output is negative and not a whole number.
C16_Witness ==
    /\ pidc.stage = "updated"
    /\ pidc.output < 0
    /\ pidc.output % 1000 # 0
    /\ pidc.last_val > 0

(* ------------------------------------------------------------ SensorValue *)
\* A SensorValue is [kind, factor, value]; factor counts halves, so that
\* every product is exact as it is in f64 for these values.
SensorKinds == {"TEMPERATURE", "PERCENTAGE"}
FactorHalves == {0, 1, 2, 4}
RawValues == {-50, 0, 25, 50}

SensorValues == [kind : SensorKinds, factor : FactorHalves, value : RawValues]

\* SensorValue::as_scaled_value (in halves)
as_scaled_value(a) == a.value * a.factor

\* PartialOrd for SensorValue: the scaled values are compared.
partial_cmp(a, b) ==
    IF as_scaled_value(a) < as_scaled_value(b) THEN "Less"
    ELSE IF as_scaled_value(a) > as_scaled_value(b) THEN "Greater"
    ELSE "Equal"

\* a <= b, which PartialOrd derives from partial_cmp.
le(a, b) == partial_cmp(a, b) \in {"Less", "Equal"}

\* a == b: the derived PartialEq compares field by field.
eq(a, b) == a.kind = b.kind /\ a.factor = b.factor /\ a.value = b.value

InitValue ==
    /\ InitBench
    /\ \E a \in SensorValues, b \in SensorValues, c \in SensorValues :
        sv = [stage |-> "new", a |-> a, b |-> b, c |-> c, ab |-> FALSE,
              ba |-> FALSE, bc |-> FALSE, ac |-> FALSE, eq_ab |-> FALSE]
    /\ lc = IdleUnit
    /\ ag = IdleUnit
    /\ pidc = IdleUnit
    /\ ld = IdleUnit

\* The three values are compared with <= and ==.
compare_values ==
    /\ sv.stage = "new"
    /\ sv' = [sv EXCEPT !.stage = "compared",
                        !.ab = le(sv.a, sv.b),
                        !.ba = le(sv.b, sv.a),
                        !.bc = le(sv.b, sv.c),
                        !.ac = le(sv.a, sv.c),
                        !.eq_ab = eq(sv.a, sv.b)]
    /\ UNCHANGED <<envVars, fanVars, calVars, hubVars, lc, ag, pidc, ld>>

NextValue == compare_values

SpecValue == InitValue /\ [][NextValue]_vars

(* --------------------------------------------- claims on SensorValue *)
\* C17: a <= b holds exactly when the scaled value of a is at most that of
\* b; <= is transitive; and a <= b with b <= a implies a == b.
C17_OrderOnScaledValues ==
    sv.stage = "compared" =>
        /\ sv.ab <=> (sv.a.value * sv.a.factor <= sv.b.value * sv.b.factor)
        /\ (sv.ab /\ sv.bc) => sv.ac
        /\ (sv.ab /\ sv.ba) => sv.eq_ab

(* ------------------------------------------- loading the configuration *)
\* The ids a curve or a fan can name: a temperature source or a curve.
RefIds == {"temp1"} \cup Curves

\* The steps of the linear curves of the configurations.
StepChoices == {<<>>, << <<0, 3>> >>, << <<0, 3>>, <<3, 1>> >>}

\* config::CurveFunction: what a FanCurve of the configuration can hold.
CurveFunctions ==
    {[type |-> "static", inputs |-> <<>>, steps |-> <<>>]}
      \cup {[type |-> "linear", inputs |-> <<r>>, steps |-> << <<0, 3>>, <<3, 1>> >>]
                : r \in RefIds}
      \cup {[type |-> "linear", inputs |-> <<"temp1">>, steps |-> st]
                : st \in StepChoices}
      \cup {[type |-> "maximum", inputs |-> <<r>>, steps |-> <<>>] : r \in RefIds}
      \cup {[type |-> "maximum", inputs |-> <<r, "temp1">>, steps |-> <<>>]
                : r \in RefIds}

\* config::FanCurve: an id and a function.
FanCurves ==
    {[id |-> id, function |-> fn] : id \in Curves, fn \in CurveFunctions}

\* RufacoConfig.curves: a list; nothing keeps two entries from sharing an id.
CurveLists ==
    {<<>>} \cup {<<c>> : c \in FanCurves}
      \cup (FanCurves \X FanCurves)
      \cup (FanCurves \X FanCurves \X FanCurves)

\* RufacoConfig.fans: the curve each fan is bound to.
FanLists ==
    {<< [id |-> "fan1", curve |-> r], [id |-> "fan2", curve |-> "curve1"] >>
        : r \in RefIds}

\* The handle of every temperature source; the handle of a curve is its
\* position in the list of the nodes built.
SourceHandle == 0

\* A get_sensor that answers for an id it does not know.
get_sensor_any(sensor_id, sensors, curves) ==
    IF sensor_id \in Curves /\ curves[sensor_id] # None THEN curves[sensor_id]
    ELSE SourceHandle

\* get_sensor: the handle of a source or of a curve built so far; None
\* stands for the todo!() of an id found in neither map.
get_sensor(sensor_id, sensors, curves) ==
    IF sensor_id \in sensors THEN SourceHandle
    ELSE IF sensor_id \in Curves /\ curves[sensor_id] # None THEN curves[sensor_id]
    ELSE None

\* The handles of the inputs of a curve, in the order they are looked up.
InputHandles(c) ==
    [k \in 1..Len(c.function.inputs) |->
        get_sensor(c.function.inputs[k], ld.sensors, ld.curves)]

Resolved(c) ==
    \A k \in 1..Len(c.function.inputs) : InputHandles(c)[k] # None

InitLoadOf(curve_lists, fan_lists) ==
    /\ InitIdle
    /\ pc = "load"
    /\ cur = "fan1"
    /\ backend = [f \in Fans |-> "hwmon"]
    /\ conf = [f \in Fans |-> ConfiguredFan]
    /\ sim = [f \in Fans |-> [min |-> 0, start |-> 0]]
    /\ fan = [f \in Fans |-> FanNew(conf[f])]
    /\ config_file = [written |-> FALSE, path |-> "none", fans |-> conf]
    /\ selected_config = config_search_paths[1]
    /\ rd = NoInput
    /\ \E cl \in curve_lists, fl \in fan_lists :
        ld = [stage |-> "curves", curves_conf |-> cl, fans_conf |-> fl,
              i |-> 1, sensors |-> {"temp1"},
              curves |-> [id \in Curves |-> None], nodes |-> <<>>,
              fans |-> [f \in Fans |-> None]]
    /\ lc = IdleUnit
    /\ ag = IdleUnit
    /\ pidc = IdleUnit
    /\ sv = IdleUnit

InitLoad == InitLoadOf(CurveLists, FanLists)

LoadFrame == UNCHANGED <<running, sig_phase, now, fanVars, calVars, hubVars,
                         lc, ag, pidc, sv>>

\* One round of the loop over the curves: the inputs are looked up, the
\* curve is built and inserted under its id.
load_curve ==
    /\ pc = "load"
    /\ ld.stage = "curves"
    /\ ld.i <= Len(ld.curves_conf)
    /\ LET c == ld.curves_conf[ld.i]
       IN  /\ Resolved(c)
           /\ c.function.type = "linear" => c.function.steps # <<>>
           /\ ld' = [ld EXCEPT
                  !.i = ld.i + 1,
                  !.nodes = Append(ld.nodes,
                      [type |-> c.function.type,
                       inputs |-> InputHandles(c),
                       functions |-> LinearCurve_new(c.function.steps)]),
                  !.curves = [ld.curves EXCEPT ![c.id] = Len(ld.nodes) + 1]]
    /\ UNCHANGED <<pc, panic_at>>
    /\ LoadFrame

\* get_sensor on an id that is in neither map: todo!() panics.
load_curve_todo_panic ==
    /\ pc = "load"
    /\ ld.stage = "curves"
    /\ ld.i <= Len(ld.curves_conf)
    /\ ~Resolved(ld.curves_conf[ld.i])
    /\ ld' = [ld EXCEPT !.stage = "panic"]
    /\ Panic("main.rs:100")
    /\ LoadFrame

\* LinearCurve::new on a curve without steps panics.
load_curve_linear_panic ==
    /\ pc = "load"
    /\ ld.stage = "curves"
    /\ ld.i <= Len(ld.curves_conf)
    /\ LET c == ld.curves_conf[ld.i]
       IN  /\ Resolved(c)
           /\ c.function.type = "linear"
           /\ c.function.steps = <<>>
    /\ ld' = [ld EXCEPT !.stage = "panic"]
    /\ Panic("curve.rs:30")
    /\ LoadFrame

\* The loop over the curves ends; the loop over the fans begins.
load_curves_done ==
    /\ pc = "load"
    /\ ld.stage = "curves"
    /\ ld.i > Len(ld.curves_conf)
    /\ ld' = [ld EXCEPT !.stage = "fans", !.i = 1]
    /\ UNCHANGED <<pc, panic_at>>
    /\ LoadFrame

\* curves[&sensorconf.curve]: None stands for the panic of indexing the map
\* with an id it does not hold.
CurveOfFan(f) == IF f.curve \in Curves THEN ld.curves[f.curve] ELSE None

\* One round of the loop over the fans: the fan is bound to its curve.
load_fan ==
    /\ pc = "load"
    /\ ld.stage = "fans"
    /\ ld.i <= Len(ld.fans_conf)
    /\ LET f == ld.fans_conf[ld.i]
       IN  /\ CurveOfFan(f) # None
           /\ ld' = [ld EXCEPT !.i = ld.i + 1,
                               !.fans = [ld.fans EXCEPT
                                            ![f.id] = CurveOfFan(f)]]
    /\ UNCHANGED <<pc, panic_at>>
    /\ LoadFrame

\* Indexing the map of the curves with an id it does not hold panics.
load_fan_panic ==
    /\ pc = "load"
    /\ ld.stage = "fans"
    /\ ld.i <= Len(ld.fans_conf)
    /\ CurveOfFan(ld.fans_conf[ld.i]) = None
    /\ ld' = [ld EXCEPT !.stage = "panic"]
    /\ Panic("main.rs:218")
    /\ LoadFrame

\* All fans are loaded: the setup of the fans begins.
load_done ==
    /\ pc = "load"
    /\ ld.stage = "fans"
    /\ ld.i > Len(ld.fans_conf)
    /\ ld' = [ld EXCEPT !.stage = "loaded"]
    /\ pc' = "setup"
    /\ UNCHANGED panic_at
    /\ LoadFrame

NextLoad ==
    \/ load_curve
    \/ load_curve_todo_panic
    \/ load_curve_linear_panic
    \/ load_curves_done
    \/ load_fan
    \/ load_fan_panic
    \/ load_done

SpecLoad == InitLoad /\ [][NextLoad]_vars

(* --------------------------------------------------- claims on loading *)
\* The ids of the curves declared before position i of the list.
DeclaredBefore(cl, i) == {cl[j].id : j \in 1..(i - 1)}

\* A curve names an input that is neither a source nor a curve declared
\* earlier, or a fan names a curve that is not declared.
InvalidReference(cl, fl) ==
    \/ \E i \in 1..Len(cl) :
        \E k \in 1..Len(cl[i].function.inputs) :
            /\ cl[i].function.inputs[k] \notin ld.sensors
            /\ cl[i].function.inputs[k] \notin DeclaredBefore(cl, i)
    \/ \E i \in 1..Len(fl) : fl[i].curve \notin DeclaredBefore(cl, Len(cl) + 1)

\* Nothing of the setup or of a tick has happened.
NothingRan ==
    /\ visited = {}
    /\ cancelled_at = {}
    /\ out = [f \in Fans |-> 0]
    /\ done_sensors = {} /\ done_curves = {} /\ done_fans = {}

\* C18: with an unresolvable input of a curve or an undeclared curve of a
\* fan the start-up fails, and it fails before any fan is calibrated, any
\* PWM is written or any tick runs.
C18_UnknownIdFailsStartup ==
    InvalidReference(ld.curves_conf, ld.fans_conf) =>
        /\ pc \in {"load", "panic"}
        /\ ld.stage # "loaded"
        /\ NothingRan
        /\ ~(ENABLED NextLoad) => pc = "panic"

\* A curve that names a curve declared after it: the second curve is never
\* reached.
C18_Witness ==
    /\ InvalidReference(ld.curves_conf, ld.fans_conf)
    /\ Len(ld.curves_conf) >= 2
    /\ ld.curves_conf[1].function.inputs = <<ld.curves_conf[2].id>>
    /\ ld.curves_conf[1].id # ld.curves_conf[2].id
    /\ pc = "panic"
    /\ panic_at = "main.rs:100"

\* The curve ids that the entries with an id in S name as inputs.
NamedBy(cl, S) ==
    {r \in Curves : \E i \in 1..Len(cl) :
        /\ cl[i].id \in S
        /\ \E k \in 1..Len(cl[i].function.inputs) : cl[i].function.inputs[k] = r}

RECURSIVE ReachedIds(_, _, _)
ReachedIds(cl, S, n) ==
    IF n = 0 THEN S ELSE ReachedIds(cl, S \cup NamedBy(cl, S), n - 1)

\* The references of the curves form a cycle: some id leads back to itself.
CyclicConfig(cl) ==
    \E id \in Curves :
        id \in ReachedIds(cl, NamedBy(cl, {id}), Cardinality(Curves))

\* The curve handles that the nodes with a handle in S hold.
HeldBy(nodes, S) ==
    {h \in 1..Len(nodes) : \E k \in S :
        \E j \in 1..Len(nodes[k].inputs) : nodes[k].inputs[j] = h}

RECURSIVE ReachedHandles(_, _, _)
ReachedHandles(nodes, S, n) ==
    IF n = 0 THEN S ELSE ReachedHandles(nodes, S \cup HeldBy(nodes, S), n - 1)

AcyclicHandles(nodes) ==
    \A k \in 1..Len(nodes) :
        k \notin ReachedHandles(nodes, HeldBy(nodes, {k}), Len(nodes))

\* C19: a configuration whose curve references form a cycle is rejected,
\* and the handles of the nodes built never form a cycle.
C19_CyclesRejected ==
    /\ CyclicConfig(ld.curves_conf) => ld.stage # "loaded"
    /\ AcyclicHandles(ld.nodes)

\* A linear curve of the configuration has fewer than two steps.
FewSteps(cl) ==
    \E i \in 1..Len(cl) :
        cl[i].function.type = "linear" /\ Len(cl[i].function.steps) < 2

\* C20: a linear curve with fewer than two steps makes the start-up fail,
\* and no linear curve that was built has fewer than two steps.
C20_FewStepsFailStartup ==
    /\ FewSteps(ld.curves_conf) => ld.stage # "loaded"
    /\ \A k \in 1..Len(ld.nodes) :
        ld.nodes[k].type = "linear" => Len(ld.nodes[k].functions) >= 1

(* ------------------------------------------- claims on failures in a tick *)
\* C21: a PWM write that fails in the fan phase of a tick is reported and
\* does not end the tick: every step of the fan phase leaves the main thread
\* in the fan phase or at the sleep that ends the tick.
C21_WriteFailureKeepsTick ==
    [][pc = "tick_fans" => pc' \in {"tick_fans", "tick_sleep"}]_vars

\* The last value a node holds: TempSensor.last_val or FanSensor.last_val.
LastVal(node) == IF node \in Sensors THEN temp[node] ELSE fan[node].last_val

ReadFailed == rd.node # "none" /\ rd.reading = None

\* C22: a failed read of a temperature or RPM input leaves the node's last
\* value as it was, and a tick in which a read failed is not aborted: it
\* goes on with the remaining sources, curves and fans.
C22_ReadFailureKeepsValueAndTick ==
    /\ ReadFailed => LastVal(rd.node) = rd.before
    /\ rd.failed # {} => pc # "panic"

(* ------------------------------------------- claims on the start-up setup *)
\* The step that stores the pair measure_fan returned.
Stored == pc = "measure_fan_ret" /\ pc' = "setup"

\* C23: once the calibration of a fan has returned (min_pwm, start_pwm), the
\* fan's min_pwm and start_pwm and the fan's minpwm and startpwm of the
\* configuration are that pair, and the whole configuration is written to
\* the path it was loaded from.
C23_PairStoredAtLoadedPath ==
    [][Stored =>
        /\ fan'[cur].min_pwm = mf_res[1] /\ fan'[cur].start_pwm = mf_res[2]
        /\ conf'[cur] = [minpwm |-> mf_res[1], startpwm |-> mf_res[2]]
        /\ config_file'.written /\ config_file'.fans = conf'
        /\ config_file'.path = selected_config]_vars

(* ------------------------------------------- the mutexes of the hub's nodes *)
\* The curve functions of the configurations whose locking is followed:
\* every type of curve, aggregates with a child listed twice included.
LockFunctions ==
    {[type |-> "static", inputs |-> <<>>, steps |-> <<>>]}
      \cup {[type |-> "linear", inputs |-> <<r>>, steps |-> << <<0, 3>> >>]
                : r \in RefIds}
      \cup {[type |-> "linear", inputs |-> <<"temp1">>, steps |-> <<>>]}
      \cup {[type |-> "pid", inputs |-> <<r>>, steps |-> <<>>] : r \in RefIds}
      \cup {[type |-> t, inputs |-> <<r, q>>, steps |-> <<>>]
                : t \in {"maximum", "average"}, r \in RefIds, q \in RefIds}

LockCurves ==
    {[id |-> id, function |-> fn] : id \in Curves, fn \in LockFunctions}

LockLists == {<<c>> : c \in LockCurves} \cup (LockCurves \X LockCurves)

InitLock == InitLoadOf(LockLists, FanLists)

\* The mutex of a source or a curve is named by its handle; the mutexes of
\* the fans are numbered after those of the curves.
FanLock(f) == Len(ld.nodes) + (IF f = "fan1" THEN 1 ELSE 2)

Held(h) == \E k \in 1..Len(lk.held) : lk.held[k] = h

\* Iterator::max_by over the children from the i-th on, acc being the
\* greatest so far: each comparison locks acc and then the i-th child, one
\* after the other, and map_or locks the greatest at the end. Which child
\* is the greatest depends on the values.
RECURSIVE max_by_locks(_, _, _)
max_by_locks(sensors, i, acc) ==
    IF i > Len(sensors) THEN {<<acc>>}
    ELSE {<<acc, sensors[i]>> \o rest :
            rest \in max_by_locks(sensors, i + 1, acc)
                       \cup max_by_locks(sensors, i + 1, sensors[i])}

\* The mutexes get_value of node h locks while h's own is held, in order.
get_value_locks(h) ==
    IF h = SourceHandle THEN {<<>>}
    ELSE LET node == ld.nodes[h]
         IN  CASE node.type = "linear" -> {node.inputs}
               [] node.type = "average" -> {node.inputs}
               [] node.type = "maximum" ->
                    IF node.inputs = <<>> THEN {<<>>}
                    ELSE max_by_locks(node.inputs, 2, node.inputs[1])
               [] OTHER -> {<<>>}

\* The mutexes update_value of curve h locks: PidCurve reads its sensor,
\* the default implementation does nothing.
update_value_locks(h) ==
    IF ld.nodes[h].type = "pid" THEN {ld.nodes[h].inputs} ELSE {<<>>}

\* A MutexGuard that lives on after its statement.
guard_kept(held) == held

\* The MutexGuard is a temporary: it is dropped at the end of its statement.
guard_dropped(held) == SubSeq(held, 1, Len(held) - 1)

LockFrame ==
    UNCHANGED <<envVars, fanVars, calVars, visited, temp, done_sensors,
                done_curves, done_fans, config_file, rd, selected_config,
                tk, unitVars>>

Hub == ld.stage = "loaded" /\ lk.phase \in {"setup", "sensors", "curves", "fans"}

\* What a for_each of the phase goes through.
PhaseIds(phase) ==
    CASE phase = "sensors" -> ld.sensors
      [] phase = "curves" -> {id \in Curves : ld.curves[id] # None}
      [] OTHER -> Fans

\* The mutex the for_each locks for id, and what is locked under it:
\* measure_fan under the fan's in the setup, update_input of a source,
\* update_value of a curve, update_output (the bound curve) under a fan's.
PhaseLock(phase, id) ==
    CASE phase = "setup" -> [lock |-> FanLock(id), todo |-> {<<>>}]
      [] phase = "sensors" -> [lock |-> SourceHandle, todo |-> {<<>>}]
      [] phase = "curves" ->
            [lock |-> ld.curves[id], todo |-> update_value_locks(ld.curves[id])]
      [] phase = "fans" -> [lock |-> FanLock(id), todo |-> {<<ld.fans[id]>>}]

\* The closure of a for_each locks the mutex of its next element: locking a
\* mutex the thread holds blocks it for good.
for_each_lock(id) ==
    /\ Hub
    /\ lk.frames = <<>>
    /\ id \in PhaseIds(lk.phase) \ lk.done
    /\ LET l == PhaseLock(lk.phase, id)
       IN  \E t \in l.todo :
            IF Held(l.lock)
            THEN lk' = [lk EXCEPT !.phase = "deadlock"]
            ELSE lk' = [lk EXCEPT !.held = Append(@, l.lock),
                                  !.frames = <<[lock |-> l.lock, todo |-> t]>>,
                                  !.done = @ \cup {id}]
    /\ LockFrame

\* The node whose mutex was locked last locks the next one it reads.
get_value_lock ==
    /\ Hub
    /\ lk.frames # <<>>
    /\ LET n == Len(lk.frames)
           top == lk.frames[n]
       IN  /\ top.todo # <<>>
           /\ LET h == Head(top.todo)
              IN  \E t \in get_value_locks(h) :
                    IF Held(h)
                    THEN lk' = [lk EXCEPT !.phase = "deadlock"]
                    ELSE lk' = [lk EXCEPT
                            !.held = Append(@, h),
                            !.frames = Append([@ EXCEPT ![n].todo = Tail(top.todo)],
                                              [lock |-> h, todo |-> t])]
    /\ LockFrame

\* The statement that locked the last mutex ends: its guard is dropped.
guard_drop ==
    /\ Hub
    /\ lk.frames # <<>>
    /\ lk.frames[Len(lk.frames)].todo = <<>>
    /\ lk' = [lk EXCEPT !.held = guard_dropped(@),
                        !.frames = SubSeq(@, 1, Len(@) - 1)]
    /\ LockFrame

NextPhase(phase) ==
    CASE phase = "setup" -> "sensors"
      [] phase = "sensors" -> "curves"
      [] phase = "curves" -> "fans"
      [] phase = "fans" -> "sensors"

\* A for_each has gone through all its elements: the next one begins (after
\* the fans, the sensors of the next tick).
for_each_done ==
    /\ Hub
    /\ lk.frames = <<>>
    /\ lk.done = PhaseIds(lk.phase)
    /\ lk' = [lk EXCEPT !.phase = NextPhase(lk.phase), !.done = {}]
    /\ LockFrame

NextLock ==
    \/ NextLoad
    \/ \E id \in Fans \cup Sensors \cup Curves : for_each_lock(id)
    \/ get_value_lock
    \/ guard_drop
    \/ for_each_done

SpecLock == InitLock /\ [][NextLock]_vars

(* ------------------------------------------------- claims on the mutexes *)
\* The inputs of the node behind mutex h: the bound curve of a fan, the
\* children of a curve.
LockedUnder(h) ==
    IF h = SourceHandle THEN {}
    ELSE IF h > Len(ld.nodes)
         THEN {ld.fans[f] : f \in {g \in Fans : FanLock(g) = h}}
         ELSE {ld.nodes[h].inputs[k] : k \in 1..Len(ld.nodes[h].inputs)}

\* C24: the main thread never locks a mutex it holds, and the mutexes it
\* holds at once were locked in the order fan, its bound curve, that
\* curve's inputs: each one is an input of the one locked before it. No
\* execution blocks on a mutex.
C24_NoRelock ==
    ld.stage = "loaded" =>
        /\ lk.phase # "deadlock"
        /\ \A i \in 1..Len(lk.held), j \in 1..Len(lk.held) :
            i # j => lk.held[i] # lk.held[j]
        /\ \A i \in 1..(Len(lk.held) - 1) :
            lk.held[i + 1] \in LockedUnder(lk.held[i])

\* A fan holds its own mutex, its curve's, a child's of that curve and a
\* source's at once, in a graph where the source is reached on two paths.
C24_Witness ==
    /\ ld.stage = "loaded"
    /\ lk.phase = "fans"
    /\ Len(lk.held) = 4
    /\ lk.held[1] > Len(ld.nodes)
    /\ lk.held[4] = SourceHandle
    /\ SourceHandle \in LockedUnder(lk.held[2])

\* The for_each of the setup starts measure_fan for the fan it reached.
MeasureStarts == pc = "setup" /\ pc' = "measure_fan"

\* The for_each of the setup passes the fan it reached without measuring.
MeasureSkipped == pc = "setup" /\ pc' = "setup" /\ visited' # visited

LacksBoth(c) == c.minpwm = None /\ c.startpwm = None

\* C25: measure_fan is run for exactly the fans that lack both minpwm and
\* startpwm; a fan with at least one of the two configured is passed over.
C25_MeasuredIffBothAbsent ==
    [][/\ MeasureStarts => LacksBoth(conf[cur'])
       /\ MeasureSkipped => ~LacksBoth(conf[cur'])]_vars

\* Every fan has the two PWM parameters in the configuration.
AllCalibrated == \A f \in Fans : ~needs_measurement(conf[f])

\* C26: no tick and no PWM write of update_output happens before every fan
\* that needs it is calibrated; and while one fan is being calibrated no
\* other is: every fan the setup went through before has its parameters,
\* and the configuration written holds them.
C26_CalibrationBeforeTicks ==
    /\ (InTick \/ pc \in {"loop", "exit"} \/ Updated) =>
            (visited = Fans /\ AllCalibrated)
    /\ (InCalibration \/ pc = "measure_fan_ret") =>
            /\ cur \notin visited
            /\ \A f \in visited :
                /\ ~needs_measurement(conf[f])
                /\ config_file.fans[f] = conf[f]

\* Both fans were calibrated, one after the other, their pairs were
\* written, and a tick is updating the fans.
C26_Witness ==
    /\ pc = "tick_fans"
    /\ done_fans # {}
    /\ config_file.written
    /\ \A f \in Fans : conf[f].startpwm # TestStartPwm /\ config_file.fans[f] = conf[f]

(* ------------------------------------ a calibration on hwmon, on its own *)
\* The thresholds of the fan calibrated on hwmon.
MeasureThresholds == {[min |-> 1, start |-> 2]}

\* measure_fan on a fan whose input and output are hwmon's: the reads of
\* the RPM can fail, the stop flag stays set.
InitMeasure ==
    /\ InitIdle
    /\ pc = "measure_fan"
    /\ cur = "fan1"
    /\ backend = [f \in Fans |-> "hwmon"]
    /\ \E c \in UnconfiguredFans :
        conf = [f \in Fans |-> IF f = "fan1" THEN c ELSE ConfiguredFan]
    /\ \E t \in MeasureThresholds :
        sim = [f \in Fans |-> IF f = "fan1" THEN t
                              ELSE [min |-> TestMinPwm, start |-> TestStartPwm]]
    /\ fan = [f \in Fans |-> FanNew(conf[f])]
    /\ config_file = [written |-> FALSE, path |-> "none", fans |-> conf]
    /\ selected_config = config_search_paths[1]
    /\ rd = [NoInput EXCEPT !.budget = CalFailedReads]
    /\ NoUnits

NextMeasure ==
    \/ measure_pwm_write
    \/ measure_pwm_write_panic
    \/ measure_pwm_sleep
    \/ measure_pwm_sample
    \/ measure_pwm_settled
    \/ measure_fan_start
    \/ measure_fan_init
    \/ measure_fan_probe_spins
    \/ measure_fan_probe_stopped
    \/ measure_fan_restored
    \/ measure_fan_descent_start
    \/ measure_fan_descent_stopped
    \/ measure_fan_descent_spins

SpecMeasure == InitMeasure /\ [][NextMeasure]_vars

(* ------------------------------- a calibration that is cancelled, alone *)
\* A fan that turns unsteadily: its reads differ by more than the tolerance.
UnsteadyFan == [min |-> 1, start |-> 2, jitter |-> 100]

\* measure_fan on the unsteady fan, with the signal thread.
InitCancel ==
    /\ InitIdle
    /\ pc = "measure_fan"
    /\ cur = "fan1"
    /\ backend = [f \in Fans |-> "mock"]
    /\ conf = [f \in Fans |-> IF f = "fan1" THEN [minpwm |-> None, startpwm |-> None]
                              ELSE ConfiguredFan]
    /\ sim = [f \in Fans |-> IF f = "fan1" THEN UnsteadyFan
                             ELSE [min |-> TestMinPwm, start |-> TestStartPwm]]
    /\ fan = [f \in Fans |-> FanNew(conf[f])]
    /\ config_file = [written |-> FALSE, path |-> "none", fans |-> conf]
    /\ selected_config = config_search_paths[1]
    /\ rd = NoInput
    /\ NoUnits

\* The steps of the main thread.
MainCancel ==
    \/ measure_pwm_write
    \/ measure_pwm_cancelled
    \/ measure_pwm_sleep
    \/ measure_pwm_sample
    \/ measure_pwm_settled
    \/ measure_fan_start
    \/ measure_fan_init_panic
    \/ measure_fan_init
    \/ measure_fan_probe_cancelled
    \/ measure_fan_probe_spins
    \/ measure_fan_probe_stopped
    \/ measure_fan_restored
    \/ measure_fan_max_panic
    \/ measure_fan_descent_start
    \/ measure_fan_descent_cancelled
    \/ measure_fan_descent_stopped
    \/ measure_fan_descent_spins

NextCancel ==
    \/ signal
    \/ MainCancel

\* The main thread is scheduled as long as it can take a step.
SpecCancel == InitCancel /\ [][NextCancel]_vars /\ WF_vars(MainCancel)

(* ------------------------------------------------- claims on measure_pwm *)
\* The call sites measure_pwm returns to.
ReturnSites == {"ret_init", "ret_probe", "ret_restore", "ret_max", "ret_desc"}

\* measure_pwm has returned Some(mean).
MeasuredSome == pc \in ReturnSites /\ mp_res # None

\* C27: when measure_pwm returns Some(mean), mean is the truncated mean of
\* the 5 most recent samples, each of them was taken after the PWM write of
\* this call, and each differs from mean by at most the tolerance.
C27_MeanOfFreshSamples ==
    MeasuredSome =>
        /\ Len(mp.rpms) = RingLen
        /\ mp_res = TruncDiv(SumSeq(mp.rpms), RingLen)
        /\ \A i \in 1..Len(mp.rpms) : Abs(mp.rpms[i] - mp_res) <= MaxRpmDiff
        /\ \A i \in 1..Len(mp.taken) : mp.taken[i]

\* measure_pwm stands at the head of an iteration with the stop flag false.
HeadStopped == pc = "measure_pwm" /\ measure_pwm_unsettled /\ ~running

\* C28: at the head of every iteration, before it sleeps or samples,
\* measure_pwm returns None when the stop flag is false; once the flag is
\* cleared a running measure_pwm takes at most one more sample, and the
\* calibration ends even when the RPM never settles.
C28_StopFlagEndsMeasurement ==
    /\ [][HeadStopped => (pc' = mp_ret /\ mp_res' = None)]_vars
    /\ [](mp.after_stop <= 1)
    /\ (~running ~> ~InCalibration)

\* The flag was cleared while measure_pwm slept in front of an unsettled
\* buffer: one more sample was taken (still unsettled) and measure_pwm
\* returned None.
C28_Witness ==
    /\ ~running
    /\ pc \in ReturnSites
    /\ mp_res = None
    /\ mp.after_stop = 1
    /\ Len(mp.rpms) = RingLen
    /\ MaxDiffOf(mp.rpms, MeanOf(mp.rpms)) > MaxRpmDiff

(* ------------------------------------------------- claims on measure_fan *)
\* The binary search has ended: measure_fan measures the fan at 255 next.
SearchEnded == mp_ret = "ret_max" /\ pc \in {"measure_pwm_enter", "measure_pwm"}

\* The fan stands at PWM 0 and starts at some PWM in 1..255.
Stoppable == sim[cur].start >= 1

\* C29: when the binary search ends (the bounds one apart, from 0 and 255),
\* the fan's start_pwm is the upper bound, whatever PWM in 1..255 the fan
\* starts at.
C29_StartIsUpperBound ==
    (SearchEnded /\ Stoppable) =>
        /\ mf.max_pwm - mf.min_pwm <= 1
        /\ fan[cur].start_pwm = mf.max_pwm

\* A probe of the binary search at a mid PWM is issued: measure_pwm is
\* called from the search and writes the PWM next.
ProbeIssued == pc = "measure_pwm_enter" /\ mp_ret = "ret_probe"

\* C30: every probe of the binary search is issued on a fan in a known
\* stopped state: the fan stands, and its last measurement (at PWM 0 after a
\* probe at which it turned) settled at 0 RPM.
C30_ProbesOnStoppedFan ==
    ProbeIssued =>
        /\ ~hw[cur]
        /\ fan[cur].last_val = 0
        /\ mp_res = 0

(* -------------------------------------- claims on measure_fan's resources *)
\* A further probe of the binary search is issued.
NextProbe == mf.probes >= 1 /\ mf'.probes = mf.probes + 1

\* The main thread leaves a descent probe that settled at 0 RPM.
DescentStopped == pc = "ret_desc" /\ mp_res = 0 /\ pc' # pc

\* C31: with the stop flag set throughout (every measure_pwm settles then),
\* measure_fan terminates by returning its pair: the binary search issues at
\* most 8 probes, each on a strictly narrower interval, and the descent at
\* most start_pwm + 3 probes, ending at the first one that settles at 0 RPM.
C31_MeasureFanTerminates ==
    /\ [](mf.probes <= 8)
    /\ [](mf.descents <= fan[cur].start_pwm + 3)
    /\ [][NextProbe => mf'.width < mf.width]_vars
    /\ [][DescentStopped => (pc' = "measure_fan_ret" /\ mf_res' # <<>>)]_vars
    /\ ([]running => <>ReturnedSome)


(* ------------------------------------------- claims on the fan's PWM range *)
\* C32: a fan reading 0 RPM with a demand in [start_percent, 100] gets the
\* floor start_pwm and a PWM of at least start_pwm; a turning fan with a
\* demand in [10, 100] gets a PWM of at least min_pwm; a demand of 100
\* writes 255.
C32_FloorOfWrittenPwm ==
    Updated =>
        /\ (upd.rpm = 0 /\ StartPercent <= upd.percentage /\ upd.percentage <= 100)
            => /\ upd.min_pwm = fan[upd.fan].start_pwm
               /\ out[upd.fan] >= fan[upd.fan].start_pwm
        /\ (upd.rpm >= 1 /\ ZeroPercent <= upd.percentage /\ upd.percentage <= 100)
            => out[upd.fan] >= fan[upd.fan].min_pwm
        /\ upd.percentage = 100 => out[upd.fan] = U8Max

\* A stopped fan at the demand start_percent is driven between start_pwm
\* and 255.
C32_Witness ==
    /\ Updated
    /\ upd.rpm = 0
    /\ upd.percentage = StartPercent
    /\ fan[upd.fan].start_pwm > fan[upd.fan].min_pwm
    /\ out[upd.fan] > fan[upd.fan].start_pwm
    /\ out[upd.fan] < U8Max


\* C33: the demand is clamped to [0, 100] before the PWM is computed: a
\* demand above 100 writes what demand 100 writes, a demand below 0 writes
\* what demand 0 writes, which is the chosen floor.
C33_DemandClamped ==
    Updated =>
        /\ upd.percentage > 100 => out[upd.fan] = pwm_value(100, upd.min_pwm)
        /\ upd.percentage < 0 => out[upd.fan] = pwm_value(0, upd.min_pwm)


(* ------------------------------------------------- claims on the node ids *)
\* The curve map holds position i of the list under the id declared there.
InCurveMap(i) == ld.curves[ld.curves_conf[i].id] = i

\* C34: in every built hub the ids of the sources and of the curves are
\* pairwise distinct, and every declared curve is the entry of the curve
\* map under its id (the map is what a tick updates).
C34_UniqueNodeIds ==
    ld.stage = "loaded" =>
        \A i \in 1..Len(ld.curves_conf) :
            /\ ld.curves_conf[i].id \notin ld.sensors
            /\ \A j \in 1..Len(ld.curves_conf) :
                i # j => ld.curves_conf[i].id # ld.curves_conf[j].id
            /\ InCurveMap(i)


(* ------------------------------------- FanHub::update on the loaded nodes *)
\* The ticks followed.
MaxTicks == 2

\* What the temperature source reads, in millidegrees.
TickTemps == {0, 500}

\* The value of the static curves.
HubStatic == 30

\* The curve functions of the hubs whose ticks are followed: PID curves on
\* sources and on curves, read by fans and by aggregates.
TickFunctions ==
    {[type |-> "static", inputs |-> <<>>, steps |-> <<>>]}
      \cup {[type |-> "pid", inputs |-> <<r>>, steps |-> <<>>] : r \in RefIds}
      \cup {[type |-> "maximum", inputs |-> <<r, q>>, steps |-> <<>>]
                : r \in RefIds, q \in RefIds}

TickCurves ==
    {[id |-> id, function |-> fn] : id \in Curves, fn \in TickFunctions}

TickLists ==
    {<<c>> : c \in TickCurves}
      \cup (TickCurves \X TickCurves)
      \cup (TickCurves \X TickCurves \X TickCurves)

InitTick == InitLoadOf(TickLists, FanLists)

\* PidCurve::new for the PID curves of these hubs: an integrating
\* controller with the target 0.
HubPid == PidCurve_new(0, 100, 0, 0)

\* The PidCurve of node h in the tick state t: t.pid holds the curves that
\* have been updated, the others are as constructed.
PidOf(t, h) == IF h \in DOMAIN t.pid THEN t.pid[h] ELSE HubPid

\* get_value on the node with handle h in the tick state t: a source
\* returns its last reading, an aggregate asks its children, a PidCurve
\* returns last_val.
RECURSIVE hub_get_value(_, _)
hub_get_value(t, h) ==
    IF h = SourceHandle THEN t.temp
    ELSE LET node == ld.nodes[h]
             vals == [k \in 1..Len(node.inputs) |->
                        hub_get_value(t, node.inputs[k])]
         IN  CASE node.type = "static" -> HubStatic
               [] node.type = "maximum" -> MaximumCurve_get_value(vals)
               [] node.type = "pid" -> PidCurve_get_value(PidOf(t, h))

\* The ids under which the curve map holds a curve.
MapIds == {id \in Curves : ld.curves[id] # None}

HubFrame ==
    UNCHANGED <<envVars, fanVars, calVars, visited, temp, done_sensors,
                done_curves, done_fans, config_file, rd, selected_config,
                lk, unitVars>>

\* update(): the sensors are refreshed first.
hub_update_sensors ==
    /\ ld.stage = "loaded"
    /\ tk.phase = "idle"
    /\ tk.n < MaxTicks
    /\ \E v \in TickTemps :
        tk' = [tk EXCEPT !.phase = "curves", !.n = @ + 1, !.temp = v,
                         !.done = {},
                         !.updates = [h \in 1..Len(ld.nodes) |-> 0],
                         !.measured = [h \in 1..Len(ld.nodes) |-> None],
                         !.consumed = [f \in Fans |-> None]]
    /\ HubFrame

\* update_value of the node with handle h: a PidCurve reads its sensor and
\* advances its controller; the other curves keep the default, which does
\* nothing.
hub_update_value(t, h) ==
    IF ld.nodes[h].type = "pid"
    THEN LET input == hub_get_value(t, ld.nodes[h].inputs[1])
         IN  [t EXCEPT !.pid = (h :> PidCurve_update_value(PidOf(t, h), input)) @@ @,
                       !.updates[h] = @ + 1,
                       !.measured[h] = input]
    ELSE [t EXCEPT !.updates[h] = @ + 1]

\* The loop over the curve map, in the order the map yields its entries.
hub_update_curve ==
    /\ tk.phase = "curves"
    /\ \E id \in MapIds \ tk.done :
        tk' = [hub_update_value(tk, ld.curves[id]) EXCEPT !.done = @ \cup {id}]
    /\ HubFrame

\* The loop over the curves has ended.
hub_curves_done ==
    /\ tk.phase = "curves"
    /\ tk.done = MapIds
    /\ tk' = [tk EXCEPT !.phase = "fans", !.done = {}]
    /\ HubFrame

\* The loop over the fans: update_output asks the fan's curve for its value.
hub_update_fan ==
    /\ tk.phase = "fans"
    /\ \E f \in Fans \ tk.done :
        tk' = [tk EXCEPT !.consumed[f] = hub_get_value(tk, ld.fans[f]),
                         !.done = @ \cup {f}]
    /\ HubFrame

\* update() returns.
hub_update_done ==
    /\ tk.phase = "fans"
    /\ tk.done = Fans
    /\ tk' = [tk EXCEPT !.phase = "idle", !.done = {}]
    /\ HubFrame

NextTick ==
    \/ load_curve
    \/ load_curve_todo_panic
    \/ load_curves_done
    \/ load_fan
    \/ load_fan_panic
    \/ load_done
    \/ hub_update_sensors
    \/ hub_update_curve
    \/ hub_curves_done
    \/ hub_update_fan
    \/ hub_update_done

SpecTick == InitTick /\ [][NextTick]_vars

(* ------------------------------------------- claims on the curves of a tick *)
\* The handles of the PID curves built.
PidNodes == {h \in 1..Len(ld.nodes) : ld.nodes[h].type = "pid"}

\* The loop over the curve map of a tick has ended.
CurvesUpdated == tk.phase = "fans"

\* C35: the controller and the emitted value of a PID curve change only in
\* the loop over the curves of a tick and its setpoint never; reading it
\* changes nothing, so all fans bound to one curve consume the same value;
\* and at the end of the loop every PID curve has been integrated once.
C35_PidChangesOnlyInUpdate ==
    /\ [][tk'.pid # tk.pid => (tk.phase = "curves" /\ tk'.done # tk.done)]_vars
    /\ [][\A h \in PidNodes : PidOf(tk', h).setpoint = PidOf(tk, h).setpoint]_vars
    /\ [](\A f \in Fans : tk.consumed[f] # None
            => tk.consumed[f] = hub_get_value(tk, ld.fans[f]))
    /\ [](CurvesUpdated => \A h \in PidNodes : tk.updates[h] = 1)


\* C36: what a PID curve measured in the loop over the curves of a tick is
\* the value its input has in that tick, an upstream PID curve's output of
\* this tick included, in whatever order the loop went.
C36_InputsOfTheSameTick ==
    CurvesUpdated =>
        \A h \in PidNodes :
            tk.updates[h] >= 1 =>
                tk.measured[h] = hub_get_value(tk, ld.nodes[h].inputs[1])


(* ------------------------------------------- claims on measure_pwm's write *)
\* measure_pwm is in its loop or has returned to its caller.
PastEntry == pc \in {"measure_pwm", "measure_pwm_sleep"} \cup ReturnSites

\* A cancelled measurement has ended the calibration: measure_fan has
\* returned, or a None was unwrapped.
EndedCancelled ==
    /\ cancelled_at # {}
    /\ pc = "measure_fan_ret" \/ (pc = "panic" /\ panic_at \in UnwrapPanics)

\* C37: a call of measure_pwm has written its PWM exactly once when it
\* reaches the head of its loop, where the stop flag is looked at for the
\* first time, and writes no more: a call that returns None at once has
\* set the fan's output, and after a cancellation the output stays at the
\* PWM of the last call.
C37_WritesOnceBeforeFlagCheck ==
    /\ pc = "measure_pwm_enter" => mp.writes = 0
    /\ PastEntry => (mp.writes = 1 /\ out[cur] = mp.pwm)
    /\ EndedCancelled => out[cur] = mp.pwm

\* A mid probe of the binary search that the cleared flag ends before any
\* sample: the output has moved to the probe's PWM.
C37_Witness ==
    /\ pc = "ret_probe"
    /\ mp_res = None
    /\ mp.taken = <<>>
    /\ mp.pwm > 0
    /\ out[cur] = mp.pwm


(* --------------------------------------------- claims on the descent range *)
\* start_pwm is what the binary search found: the PWM of a probe at which
\* the fan turned, now the upper bound of the search.
SearchProduced == mf.probes >= 1 /\ fan[cur].start_pwm = mf.max_pwm

\* C38: for every start_pwm the binary search produces, start_pwm + 3 fits
\* an unsigned byte when the descent begins, nothing panics there, and the
\* first probe of the descent is start_pwm + 2.
C38_DescentBoundFitsU8 ==
    SearchProduced =>
        /\ (pc = "ret_max" /\ mp_res # None) => ~descent_overflows(fan[cur])
        /\ panic_at # "fan.rs:214"
        /\ (mp_ret = "ret_desc" /\ mf.descents = 1)
            => mp.pwm = fan[cur].start_pwm + 2

====
